---- MODULE Spec2Model ----
(***************************************************************************)
(* Model of the diff-application engine of simpkins/code-review:           *)
(*   - the Revision Sequencer, _Applier.run (src/arcanist/apply_diffs.py)  *)
(*   - the Diff Applicator, ArcanistHg.apply_diff (src/arcanist/hg.py)     *)
(*   - the Diff->Commit mapping file (src/arcanist/hg.py)                  *)
(*   - the Patch Reconstructor, ArcanistHg._patch_data (src/arcanist/hg.py)*)
(***************************************************************************)
EXTENDS Integers, Sequences, FiniteSets, TLC

\* ------------------------------------------------------------------------
\* Bounds of the model
\* ------------------------------------------------------------------------
\* largest number of diffs of the revision
MaxDiffs == 3
\* largest number of lines of an old file
MaxOldLines == 2
\* largest number of hunks of one change
MaxHunks == 2
\* largest number of corpus lines of one change, over all its hunks
MaxLines == 2
\* largest oldOffset of a hunk: one past the line after the last old line
MaxOffset == MaxOldLines + 2

\* Python's None (prev_commit = None, find_base_commit returning None, ...)
None == 0

\* The commits that exist in the repository before any diff is applied,
\* numbered by recency (a larger number is a more recent commit).
BaseCommits == {1, 2}

\* The newest pre-existing commit: the tip that 'master' resolves to.
MasterTip == CHOOSE c \in BaseCommits : \A o \in BaseCommits : o <= c

VARIABLES
    \* ---- the revision as fetched, and the repository it is applied to ----
    ndiffs,        \* len(rev.diffs); rev.diffs is sorted, diff i has id i
    base,          \* diff id -> commit find_base_commit resolves, or None
    applies,       \* diff id -> commits where _apply_diff finds no bad path
    unsupported,   \* id of the diff holding a change of an unsupported kind
                   \* (0: no diff does)
    diffs_as_list, \* the revision source returns rev.diffs in the older list
                   \* format (revision.py 96-99) instead of a dictionary
    mapping,       \* lines of .hg/phabricator_diffs, in file order
    created,       \* commits made by commitctx, in creation order
    \* ---- one _Applier object ----
    rev_results,   \* _Applier._rev_results[rev_id]
    pc,            \* position of the running call of _Applier.run
    results,       \* local variable results of run
    to_apply,      \* local variable to_apply of run (what is left of it)
    orig_diffs,    \* the diff ids in the order the revision source returned
                   \* them to the running call (revision.py 92)
    \* ---- history of the current / last call of run ----
    start_results, \* value of results when the apply loop was entered
    attempts,      \* one record per call of arc_scm.apply_diff in this run
    ret,           \* how the last finished call of run ended
    inner_ret,     \* how the last call of run made from within the running
                   \* call ended (NoReturn: no such call was made)
    \* ---- the Patch Reconstructor's call ----
    p_old,         \* argument old of _patch_data: None or a byte string
    p_hunks,       \* change.hunks
    p_new,         \* the content the hunks were derived for (None: not derived)
    p_pc,          \* "input" while the arguments are built, "done" after the call
    p_res,         \* result of the call
    \* ---- one call of _apply_diff ----
    a_node,        \* argument node: the candidate commit
    a_tree,        \* the files of the candidate: path -> blob or None
    a_prev,        \* metadata.prev_commit.node, or None
    a_changes,     \* diff.changes
    new_data,      \* local variable new_data of _apply_diff
    bad_paths,     \* local variable bad_paths of _apply_diff
    a_log,         \* how _apply_diff_path ended for each change handled
    a_pc,          \* "loop" during the loop over the changes, then "done"
    a_res,         \* how the call ended
    \* ---- one call of _remotefilelog_candidate_commits ----
    w_parent,      \* commit -> its parent (0: none)
    w_touched,     \* path -> the commits that changed it
    commits_to_check, \* the heads the walk starts from
    w_todo,        \* the heads the first loop has not handled yet
    w_started,     \* the generators started: (rev, what anc yields)
    seen,          \* local variable seen
    rev_heap,      \* local variable rev_heap
    w_out,         \* the commits yielded so far
    w_pc,          \* "heads", "walk", then "done"
    \* ---- one call of ArcanistHg.apply_diff, candidate by candidate ----
    r_parent,      \* what find_base_commit returns: a commit or None
    r_prev_p1,     \* metadata.prev_commit.node.p1(), None without prev_commit
    r_filelog,     \* hasattr(flog, '__iter__'): the repository has filelogs
    commit_nums,   \* the commits that changed an old path of the diff
    r_bad,         \* commit -> the paths _apply_diff finds bad on it
    r_pos,         \* how many candidates _candidate_commits has yielded
    r_tried,       \* the commits handed to _apply_diff, in order
    r_ex,          \* local variable ex: the paths of the last BadPatchError
    r_pc,          \* "start", "loop", then "done"
    r_res,         \* how the call ended
    \* ---- the mapping file as text, its writers and one call of the loader
    f_text,        \* the characters of .hg/phabricator_diffs
    f_done,        \* the entries whose line was written completely, in order
    f_cuts,        \* how many appends were interrupted within their line
    f_last_cut,    \* the last append was an interrupted one
    f_pc,          \* "write", then "loaded"
    f_res,         \* what _load_diff_mappings returned or raised
    \* ---- one call of get_dc_commit_chain on a git repository ----
    g_n,           \* the commits are 1..g_n; the first parent of c is c - 1
    g_rev,         \* commit -> the revision id of its DiffCamp fields, 0 for
                   \* a commit that has none
    g_p2,          \* commit -> its second parent, or None
    g_ref,         \* what refs/diffcamp/<rev_id> resolves to, or None
    g_commit,      \* local variable commit
    commit_chain,  \* local variable commit_chain, as commits
    g_pc,          \* "start", "walk", "set", then "done"
    g_res          \* what the call returned or raised

seq_vars == <<ndiffs, base, applies, unsupported, diffs_as_list, mapping,
              created, rev_results, pc,
              results, to_apply, orig_diffs, start_results, attempts, ret,
              inner_ret>>
patch_vars == <<p_old, p_hunks, p_new, p_pc, p_res>>
apply_vars == <<a_node, a_tree, a_prev, a_changes, new_data, bad_paths,
                a_log, a_pc, a_res>>
walk_vars == <<w_parent, w_touched, commits_to_check, w_todo, w_started,
               seen, rev_heap, w_out, w_pc>>
resolve_vars == <<r_parent, r_prev_p1, r_filelog, commit_nums, r_bad, r_pos,
                  r_tried, r_ex, r_pc, r_res>>
file_vars == <<f_text, f_done, f_cuts, f_last_cut, f_pc, f_res>>
chain_vars == <<g_n, g_rev, g_p2, g_ref, g_commit, commit_chain, g_pc, g_res>>
vars == <<seq_vars, patch_vars, apply_vars, walk_vars, resolve_vars,
          file_vars, chain_vars>>

\* What the actions of one component leave alone: the other components.
not_seq_vars == <<patch_vars, apply_vars, walk_vars, resolve_vars,
    file_vars, chain_vars>>
not_patch_vars == <<seq_vars, apply_vars, walk_vars, resolve_vars,
    file_vars, chain_vars>>
not_apply_vars == <<seq_vars, patch_vars, walk_vars, resolve_vars,
    file_vars, chain_vars>>
not_walk_vars == <<seq_vars, patch_vars, apply_vars, resolve_vars,
    file_vars, chain_vars>>
not_resolve_vars == <<seq_vars, patch_vars, apply_vars, walk_vars,
    file_vars, chain_vars>>
not_file_vars == <<seq_vars, patch_vars, apply_vars, walk_vars, resolve_vars,
    chain_vars>>
not_chain_vars == <<seq_vars, patch_vars, apply_vars, walk_vars, resolve_vars,
    file_vars>>

Last(s) == s[Len(s)]

\* ------------------------------------------------------------------------
\* The Diff->Commit mapping file
\* ------------------------------------------------------------------------

\* Identifier of the next commit commitctx creates.
NumBase == Cardinality(BaseCommits)

NewCommitId == NumBase + Len(created) + 1

\* node.p1(): first parent of a commit created by _apply_diff.
P1(c) == created[c - NumBase].p1

\* _load_diff_mappings: scan all lines, index by diff id, last line wins.
RECURSIVE LoadFrom(_, _, _)
LoadFrom(lines, i, acc) ==
    IF i > Len(lines) THEN acc
    ELSE LoadFrom(lines, i + 1,
                  [acc EXCEPT ![lines[i].diff] = lines[i].node])

_load_diff_mappings == LoadFrom(mapping, 1, [d \in 1..(MaxDiffs + 1) |-> None])

\* find_diff_commits with the mapping keyed by the id's text instead of the
\* integer: no diff id of the revision is ever found.
find_diff_commits_strkeys ==
    [d \in 1..ndiffs |-> None]

\* find_diff_commits: the mapped commit of every diff of the revision.
find_diff_commits ==
    [d \in 1..ndiffs |-> _load_diff_mappings[d]]

\* The mapping file opened for writing instead of appending: the new line
\* replaces what the file held.
_save_diff_mapping_rewrite(lines, d, node) == <<[diff |-> d, node |-> node]>>

\* _save_diff_mapping: append one line.
_save_diff_mapping(lines, d, node) == Append(lines, [diff |-> d, node |-> node])

\* ------------------------------------------------------------------------
\* The Diff Applicator (ArcanistHg.apply_diff)
\* ------------------------------------------------------------------------

\* The lookup of the declared base finding no commit.
find_base_commit_unknown(d) == None

\* hg.py 486-513: the commit the declared base revision resolves to, or None.
find_base_commit(d) == base[d]

\* Descending list of the elements of a set of commits.
RECURSIVE Descending(_)
Descending(S) ==
    IF S = {} THEN <<>>
    ELSE LET m == CHOOSE c \in S : \A o \in S : o <= c
         IN <<m>> \o Descending(S \ {m})

\* hg.py 138-143: what 'master', '@' and '.' resolve to, None standing for
\* RepoLookupError.  The repository has no bookmark '@' and its working
\* directory is at the tip of master.
Tips == <<MasterTip, None, MasterTip>>

\* hg.py 221-241: with no commit number the function raises Exception
\* (236-237); with some, commit_nums.sort (240) raises AttributeError, a set
\* having no method sort.  Either way no candidate is returned.
_normal_candidate_commits(nums) ==
    [cands |-> <<>>,
     exc |-> IF nums = {} THEN "Exception" ELSE "AttributeError"]

\* hg.py 145-219: the merged walk yields commits that changed an old path
\* of the diff, newest first.
_remotefilelog_candidate_commits(nums) ==
    [cands |-> Descending(nums), exc |-> "none"]

\* hg.py 126-135: the choice between the two.
candidates_fn(filelog, nums) ==
    IF filelog THEN _normal_candidate_commits(nums)
    ELSE _remotefilelog_candidate_commits(nums)

\* hg.py 102-143: what the generator yields (cands) and the exception that
\* ends it, "none" when it is exhausted: the first parent of the previous
\* diff's commit, the candidates of candidates_fn and, when that did not
\* raise, the tips that resolve.
CandidateCommits(p1, filelog, nums) ==
    LET h == candidates_fn(filelog, nums)
    IN  [cands |-> (IF p1 # None THEN <<p1>> ELSE <<>>)
                     \o h.cands
                     \o (IF h.exc = "none"
                         THEN SelectSeq(Tips, LAMBDA c : c # None)
                         ELSE <<>>),
         exc |-> h.exc]

\* _candidate_commits as the Sequencer's runs meet it: a repository with
\* remotefilelog, every pre-existing commit having changed a file of the
\* diff.
_candidate_commits(d, prev) ==
    CandidateCommits(IF prev # None THEN P1(prev) ELSE None,
                     FALSE, BaseCommits).cands

\* The loop over the candidates (hg.py 84-95): index of the first candidate
\* where _apply_diff succeeds, 0 when every candidate raised BadPatchError.
RECURSIVE FirstApplying(_, _, _)
FirstApplying(d, cands, i) ==
    IF i > Len(cands) THEN 0
    ELSE IF cands[i] \in applies[d] THEN i
    ELSE FirstApplying(d, cands, i + 1)

\* apply_diff: the candidate the diff is committed on (node), the candidates
\* handed to _apply_diff in order (tried), and the exception if any.  For a
\* diff that holds a change of an unsupported kind the first call of
\* _apply_diff raises Exception (hg.py 345-356), which neither hg.py 66 nor
\* the except clause of hg.py 89 catches.
apply_diff(d, prev) ==
    LET parent == find_base_commit(d)
        cands  == _candidate_commits(d, prev)
        k      == FirstApplying(d, cands, 1)
    IN  IF unsupported = d
        THEN [ok |-> FALSE, node |-> None,
              tried |-> <<IF parent # None THEN parent ELSE cands[1]>>,
              err |-> "Exception"]
        ELSE IF parent # None
        THEN IF parent \in applies[d]
             THEN [ok |-> TRUE, node |-> parent, tried |-> <<parent>>,
                   err |-> "none"]
             ELSE [ok |-> FALSE, node |-> None, tried |-> <<parent>>,
                   err |-> "BadPatchError"]
        ELSE IF k # 0
             THEN [ok |-> TRUE, node |-> cands[k],
                   tried |-> SubSeq(cands, 1, k), err |-> "none"]
             ELSE [ok |-> FALSE, node |-> None, tried |-> cands,
                   err |-> "PatchFailedError"]

\* ------------------------------------------------------------------------
\* The Revision Sequencer (_Applier.run)
\* ------------------------------------------------------------------------

\* The orders the revision source may hand the n diffs of the revision over
\* in (the iteration order of the dictionary of revision.py 100): ascending
\* by id and descending.
SourceOrders(n) ==
    { [i \in 1..n |-> i], [i \in 1..n |-> n + 1 - i] }

\* One step of list.sort: x put into an ascending list (the ids of the diffs
\* of a revision are distinct).
RECURSIVE InsertById(_, _)
InsertById(x, s) ==
    IF s = <<>> THEN <<x>>
    ELSE IF x < Head(s) THEN <<x>> \o s
    ELSE <<Head(s)>> \o InsertById(x, Tail(s))

RECURSIVE SortFrom(_, _, _)
SortFrom(orig, i, acc) ==
    IF i > Len(orig) THEN acc
    ELSE SortFrom(orig, i + 1, InsertById(orig[i], acc))

\* rev.diffs left in the order the source returned the diffs in.
SortByIdKeepsOrder(orig) == orig

\* revision.py 100-105: self.diffs.sort(key = lambda d: d.id)
SortById(orig) == SortFrom(orig, 1, <<>>)

\* rev.diffs of the running call of run
rev_diffs == SortById(orig_diffs)

\* enumerate(rev.diffs): the position of a diff, counted from 1
\* (diff_idx + 1 of apply_diffs.py 110).
DiffIdx(diffs, d) == CHOOSE i \in DOMAIN diffs : diffs[i] = d

\* The scan without the reset of to_apply at a mapped diff.
RECURSIVE ScanDiffsNoReset(_, _, _, _, _)
ScanDiffsNoReset(diffs, existing, i, res, todo) ==
    IF i > Len(diffs) THEN [results |-> res, to_apply |-> todo]
    ELSE IF existing[diffs[i]] = None
         THEN ScanDiffsNoReset(diffs, existing, i + 1, res,
                               Append(todo, diffs[i]))
         ELSE ScanDiffsNoReset(diffs, existing, i + 1,
                               Append(res, existing[diffs[i]]), todo)

\* apply_diffs.py 82-91: split rev.diffs into the commits already recorded
\* and the diffs still to apply.
RECURSIVE ScanDiffs(_, _, _, _, _)
ScanDiffs(diffs, existing, i, res, todo) ==
    IF i > Len(diffs) THEN [results |-> res, to_apply |-> todo]
    ELSE IF existing[diffs[i]] = None
         THEN ScanDiffs(diffs, existing, i + 1, res, Append(todo, diffs[i]))
         ELSE ScanDiffs(diffs, existing, i + 1,
                        Append(res, existing[diffs[i]]), <<>>)

\* The chain parent taken from the wrong end of results.
PrevCommitFirst(res) == IF res # <<>> THEN Head(res) ELSE None

\* apply_diffs.py 94-97
PrevCommit(res) == IF res # <<>> THEN Last(res) ELSE None

\* The last-diff test with the index compared as if it were zero-based.
IsLastDiffOffByOne(diff_idx) == diff_idx = ndiffs + 1

\* apply_diffs.py 110: is the failed diff the last one of the revision?
IsLastDiff(diff_idx) == diff_idx = ndiffs

\* An except clause that catches every exception.
CaughtAny(err) == TRUE

\* apply_diffs.py 107: except PatchFailedError (BadPatchError is a subclass,
\* hg.py 27).
Caught(err) == err \in {"PatchFailedError", "BadPatchError"}

NoReturn == [kind |-> "none", via |-> "none", value |-> <<>>]

\* Lines 59-68 without the test of line 61: results[:] of None raises
\* TypeError.
KnownResultUnchecked(rr) ==
    IF rr.state = "in_progress"
    THEN [kind |-> "raise", via |-> "in_progress", value |-> <<>>]
    ELSE [kind |-> "ok", via |-> "memo", value |-> rr.results]

\* apply_diffs.py 59-68: what run returns for a revision id that is a key of
\* _rev_results: [] while the value is None, else a copy of the value.
KnownResult(rr) ==
    IF rr.state = "in_progress"
    THEN [kind |-> "ok", via |-> "in_progress", value |-> <<>>]
    ELSE [kind |-> "ok", via |-> "memo", value |-> rr.results]

\* A handler that takes the revision id out of _rev_results when run raises.
MarkerDropped(rr) == [state |-> "absent", results |-> <<>>]

\* apply_diffs.py 69-111: nothing on the way of an exception out of run
\* touches _rev_results; the value set at line 69 stays.
MarkerOnRaise(rr) == rr

\* apply_diffs(repo, rev_id) builds a new _Applier: an empty _rev_results.
NewApplier ==
    /\ pc = "idle"
    /\ rev_results.state # "absent"
    /\ rev_results' = [state |-> "absent", results |-> <<>>]
    /\ UNCHANGED <<ndiffs, base, applies, unsupported, diffs_as_list, mapping,
                   created, pc, results, to_apply, orig_diffs,
                   start_results, attempts, ret, inner_ret>>
    /\ UNCHANGED not_seq_vars

\* run, lines 59-68, called while no call of run is active: the revision id
\* is already a key of _rev_results.
RunMemo ==
    /\ pc = "idle"
    /\ rev_results.state # "absent"
    /\ ret' = KnownResult(rev_results)
    /\ attempts' = <<>>
    /\ start_results' = <<>>
    /\ UNCHANGED <<ndiffs, base, applies, unsupported, diffs_as_list, mapping,
                   created, rev_results, pc, results, to_apply, orig_diffs,
                   inner_ret>>
    /\ UNCHANGED not_seq_vars

\* run, lines 59-67, called for the same revision id from within the loop of
\* the running call ("we were invoked recursively", lines 62-66): the inner
\* call returns at once and the running call goes on.
RunNested ==
    /\ pc = "loop"
    /\ inner_ret' = KnownResult(rev_results)
    /\ UNCHANGED <<ndiffs, base, applies, unsupported, diffs_as_list, mapping,
                   created, rev_results, pc, results, to_apply, orig_diffs,
                   start_results, attempts, ret>>
    /\ UNCHANGED not_seq_vars

\* run, lines 69-73, when the source returns a non-empty rev.diffs as a list:
\* revision.py 99 calls params, a dictionary, and raises TypeError.
RunFetchRaises ==
    /\ pc = "idle"
    /\ rev_results.state = "absent"
    /\ diffs_as_list
    /\ ndiffs > 0
    /\ rev_results' =
           MarkerOnRaise([state |-> "in_progress", results |-> <<>>])
    /\ ret' = [kind |-> "raise", via |-> "get_revision", value |-> <<>>]
    /\ attempts' = <<>>
    /\ start_results' = <<>>
    /\ UNCHANGED <<ndiffs, base, applies, unsupported, diffs_as_list, mapping,
                   created, pc, results, to_apply, orig_diffs, inner_ret>>
    /\ UNCHANGED not_seq_vars

\* run, lines 69-91: mark the revision in progress, fetch it, load the
\* mapping, scan.
RunStart ==
    /\ pc = "idle"
    /\ rev_results.state = "absent"
    /\ ~diffs_as_list \/ ndiffs = 0
    /\ rev_results' = [state |-> "in_progress", results |-> <<>>]
    /\ \E orig \in SourceOrders(ndiffs) :
          /\ orig_diffs' = orig
          /\ LET s == ScanDiffs(SortById(orig), find_diff_commits, 1,
                                <<>>, <<>>)
             IN  /\ results' = s.results
                 /\ to_apply' = s.to_apply
                 /\ start_results' = s.results
    /\ attempts' = <<>>
    /\ pc' = "loop"
    /\ UNCHANGED <<ndiffs, base, applies, unsupported, diffs_as_list, mapping,
                   created, ret, inner_ret>>
    /\ UNCHANGED not_seq_vars

\* run, lines 93-119: one iteration of the loop over to_apply.
\* The call of line 105 passes (self, rev, diff, info) while
\* ArcanistHg.apply_diff (hg.py 51) takes (diff, rev, metadata), and line 46
\* builds ArcanistHg(repo) without the arc_dir of hg.py 45.  The action binds
\* the arguments by name (diff, rev, info as metadata), the call the two
\* files agree on in everything but arity; taken by arity the call raises
\* TypeError before any diff is applied.
RunApply ==
    /\ pc = "loop"
    /\ to_apply # <<>>
    /\ LET d    == Head(to_apply)
           prev == PrevCommit(results)
           r    == apply_diff(d, prev)
           att  == [diff |-> d, prev |-> prev, ok |-> r.ok, node |-> r.node,
                    tried |-> r.tried, err |-> r.err,
                    commit |-> IF r.ok THEN NewCommitId ELSE None]
       IN  /\ attempts' = Append(attempts, att)
           /\ IF r.ok
              THEN /\ created' = Append(created,
                                        [p1 |-> r.node, p2 |-> prev, diff |-> d])
                   /\ mapping' = _save_diff_mapping(mapping, d, NewCommitId)
                   /\ results' = Append(results, NewCommitId)
                   /\ to_apply' = Tail(to_apply)
                   /\ UNCHANGED <<pc, ret, rev_results, orig_diffs,
                                  inner_ret>>
              ELSE IF ~Caught(r.err) \/ IsLastDiff(DiffIdx(rev_diffs, d))
              THEN /\ pc' = "idle"
                   /\ ret' = [kind |-> "raise", via |-> "run", value |-> <<>>]
                   /\ rev_results' = MarkerOnRaise(rev_results)
                   /\ results' = <<>>
                   /\ to_apply' = <<>>
                   /\ orig_diffs' = <<>>
                   /\ inner_ret' = NoReturn
                   /\ UNCHANGED <<created, mapping>>
              ELSE /\ to_apply' = Tail(to_apply)
                   /\ UNCHANGED <<created, mapping, results, pc, ret,
                                  rev_results, orig_diffs, inner_ret>>
    /\ UNCHANGED <<ndiffs, base, applies, unsupported, diffs_as_list,
                   start_results>>
    /\ UNCHANGED not_seq_vars

\* run, lines 121-122: memoize and return.
RunFinish ==
    /\ pc = "loop"
    /\ to_apply = <<>>
    /\ rev_results' = [state |-> "done", results |-> results]
    /\ ret' = [kind |-> "ok", via |-> "run", value |-> results]
    /\ pc' = "idle"
    /\ results' = <<>>
    /\ orig_diffs' = <<>>
    /\ inner_ret' = NoReturn
    /\ UNCHANGED <<ndiffs, base, applies, unsupported, diffs_as_list, mapping,
                   created, to_apply, start_results, attempts>>
    /\ UNCHANGED not_seq_vars

\* ------------------------------------------------------------------------
\* The Patch Reconstructor (ArcanistHg._patch_data)
\* ------------------------------------------------------------------------
\* A byte string is a sequence of characters; NL is the newline character.
\* A line of a hunk's corpus is a sequence of characters too: its first
\* character is the tag ('+', '-' or ' '), the rest is the text.

NL == "\n"

\* old = None: the file does not exist (a sequence no byte string equals).
NoneBytes == <<"None">>

PHABRICATOR_NO_END_NEWLINE == <<"\\", " No newline at end of file">>

\* old.split('\n')
RECURSIVE SplitFrom(_, _, _)
SplitFrom(str, i, cur) ==
    IF i > Len(str) THEN <<cur>>
    ELSE IF str[i] = NL THEN <<cur>> \o SplitFrom(str, i + 1, <<>>)
    ELSE SplitFrom(str, i + 1, Append(cur, str[i]))

Split(str) == SplitFrom(str, 1, <<>>)

\* b'\n'.join(lines)
RECURSIVE Join(_)
Join(lines) ==
    IF lines = <<>> THEN <<>>
    ELSE IF Len(lines) = 1 THEN lines[1]
    ELSE lines[1] \o <<NL>> \o Join(Tail(lines))

\* line.startswith(c)
StartsWith(line, c) == Len(line) >= 1 /\ line[1] = c

NoErr == [kind |-> "none", line |-> 0, total |-> 0,
          expected |-> <<>>, found |-> <<>>]

PathPatchError(kind, line, total, expected, found) ==
    [kind |-> kind, line |-> line, total |-> total,
     expected |-> expected, found |-> found]

\* hg.py 403-455: the body of the loop over the lines of one hunk.
\* st holds old_idx, new_lines, terminating_newline, the exception raised
\* (err) and whether the loop over this hunk was left by break (brk).
PatchLine(st, old, old_lines, line, is_last) ==
    IF is_last /\ line = PHABRICATOR_NO_END_NEWLINE
    THEN [st EXCEPT !.terminating_newline = FALSE, !.brk = TRUE]
    ELSE IF StartsWith(line, "+")
    THEN [st EXCEPT !.new_lines = Append(@, Tail(line))]
    ELSE IF old = NoneBytes
    THEN [st EXCEPT !.err = PathPatchError("old_data_for_new_file",
                                           0, 0, <<>>, <<>>)]
    ELSE IF st.old_idx >= Len(old_lines)
    THEN [st EXCEPT !.err = PathPatchError("old_file_ends", st.old_idx + 1,
                                           Len(old_lines), <<>>, <<>>)]
    ELSE IF st.old_idx < 0
    THEN [st EXCEPT !.err = PathPatchError("invalid_line_number",
                                           st.old_idx + 1, 0, <<>>, <<>>)]
    ELSE IF ~(StartsWith(line, " ") \/ StartsWith(line, "-"))
    THEN [st EXCEPT !.err = PathPatchError("unexpected_line", 0, 0,
                                           <<>>, line)]
    ELSE LET old_line == old_lines[st.old_idx + 1]
         IN  IF old_line # Tail(line)
             THEN [st EXCEPT !.err = PathPatchError("mismatch",
                                                    st.old_idx + 1, 0,
                                                    old_line, Tail(line))]
             ELSE IF StartsWith(line, " ")
             THEN [st EXCEPT !.old_idx = @ + 1,
                             !.new_lines = Append(@, old_line)]
             ELSE [st EXCEPT !.old_idx = @ + 1]

\* hg.py 402: for line_idx, line in enumerate(corpus_lines)
RECURSIVE WalkCorpus(_, _, _, _, _)
WalkCorpus(st, old, old_lines, corpus, i) ==
    IF i > Len(corpus) \/ st.err # NoErr \/ st.brk THEN st
    ELSE WalkCorpus(PatchLine(st, old, old_lines, corpus[i], i = Len(corpus)),
                    old, old_lines, corpus, i + 1)

\* The cursor set to the one-based offset itself.
HunkStartOneBased(hunk) == hunk.oldOffset

\* hg.py 400: the cursor a hunk starts at.
HunkStart(hunk) == hunk.oldOffset - 1

\* hg.py 397-401: for hunk in change.hunks
RECURSIVE WalkHunks(_, _, _, _, _)
WalkHunks(st, old, old_lines, hunks, h) ==
    IF h > Len(hunks) \/ st.err # NoErr THEN st
    ELSE WalkHunks(
            WalkCorpus([st EXCEPT !.old_idx = HunkStart(hunks[h]),
                                  !.brk = FALSE],
                       old, old_lines, hunks[h].corpus, 1),
            old, old_lines, hunks, h + 1)

\* hg.py 457-479: "We should have used all of the old data when we are done."
FinalCheck(st, old, old_lines) ==
    IF old = NoneBytes
    THEN IF st.old_idx # -1
         THEN PathPatchError("old_file_was_empty", 0, 0, <<>>, <<>>)
         ELSE NoErr
    ELSE IF st.old_idx + 1 = Len(old_lines)
    THEN IF old_lines[st.old_idx + 1] # <<>>
         THEN PathPatchError("stopped_prior_to_last_line", 0, 0, <<>>, <<>>)
         ELSE NoErr
    ELSE IF st.old_idx # Len(old_lines)
    THEN PathPatchError("patch_ended", st.old_idx + 1, Len(old_lines),
                        <<>>, <<>>)
    ELSE NoErr

\* hg.py 390-396
WalkInit == [old_idx |-> -1, new_lines |-> <<>>, terminating_newline |-> TRUE,
             err |-> NoErr, brk |-> FALSE]

OldLines(old) == IF old = NoneBytes THEN <<>> ELSE Split(old)

\* The state of _patch_data after the loop over the hunks.
Walk(old, hunks) == WalkHunks(WalkInit, old, OldLines(old), hunks, 1)

\* _patch_data(old, change): the bytes returned (data, None included), or the
\* exception raised (err).
_patch_data(old, hunks) ==
    IF hunks = <<>> THEN [ok |-> TRUE, data |-> old, err |-> NoErr]
    ELSE LET st  == Walk(old, hunks)
             fin == IF st.err # NoErr THEN st.err
                    ELSE FinalCheck(st, old, OldLines(old))
         IN  IF fin # NoErr
             THEN [ok |-> FALSE, data |-> <<>>, err |-> fin]
             ELSE [ok |-> TRUE,
                   data |-> Join(st.new_lines)
                            \o (IF st.terminating_newline THEN <<NL>> ELSE <<>>),
                   err |-> NoErr]

\* ---- the arguments the calls are made with ----

\* Texts of the lines of old files.
OldTexts == {<<"a">>, <<"b">>}

\* Texts of the lines of hunks.
HunkTexts == {<<>>, <<"a">>}

\* Lines of a corpus: tagged texts, the no-newline marker, an empty line.
HunkLines ==
    {<<tag>> \o t : tag \in {"+", "-", " "}, t \in HunkTexts}
        \cup {PHABRICATOR_NO_END_NEWLINE, <<>>}

SeqsUpTo(S, n) == UNION {[1..k -> S] : k \in 0..n}

\* Old contents: no file, or up to MaxOldLines lines, the last one with or
\* without its terminating newline.
Olds ==
    {NoneBytes}
        \cup {Join(ls) \o (IF nl /\ ls # <<>> THEN <<NL>> ELSE <<>>) :
                 ls \in SeqsUpTo(OldTexts, MaxOldLines), nl \in BOOLEAN}

NumLines(hunks) ==
    LET RECURSIVE Count(_)
        Count(h) == IF h > Len(hunks) THEN 0
                    ELSE Len(hunks[h].corpus) + Count(h + 1)
    IN  Count(1)

NoResult == [ok |-> FALSE, data |-> <<>>, err |-> NoErr]

\* The change gets one more hunk, with its first line.  (The inputs are
\* extended only while the walk over them raises nothing: a raise ends the
\* call, whatever follows the line that caused it.)
NewHunk ==
    /\ p_pc = "input"
    /\ Len(p_hunks) < MaxHunks
    /\ NumLines(p_hunks) < MaxLines
    /\ Walk(p_old, p_hunks).err = NoErr
    /\ \E off \in 0..MaxOffset : \E line \in HunkLines :
          p_hunks' = Append(p_hunks, [oldOffset |-> off, corpus |-> <<line>>])
    /\ UNCHANGED <<p_old, p_new, p_pc, p_res>>
    /\ UNCHANGED not_patch_vars

\* The last hunk of the change gets one more line.
AddLine ==
    /\ p_pc = "input"
    /\ p_hunks # <<>>
    /\ NumLines(p_hunks) < MaxLines
    /\ Walk(p_old, p_hunks).err = NoErr
    /\ \E line \in HunkLines :
          p_hunks' = [p_hunks EXCEPT ![Len(p_hunks)].corpus = Append(@, line)]
    /\ UNCHANGED <<p_old, p_new, p_pc, p_res>>
    /\ UNCHANGED not_patch_vars

\* The edit script of a diff of old against a new content: every old line is
\* kept or removed, and a line may be added before the first old line and
\* after each old line.
ScriptLines(old_lines, keep, ins) ==
    LET RECURSIVE From(_)
        From(i) ==
            IF i > Len(old_lines) THEN <<>>
            ELSE <<(IF keep[i] THEN <<" ">> ELSE <<"-">>) \o old_lines[i]>>
                    \o (IF ins[i + 1] # <<>> THEN <<<<"+">> \o ins[i + 1]>>
                        ELSE <<>>)
                    \o From(i + 1)
    IN  (IF ins[1] # <<>> THEN <<<<"+">> \o ins[1]>> ELSE <<>>) \o From(1)

\* The new content an edit script stands for.
ScriptNew(script) ==
    LET kept == SelectSeq(script, LAMBDA l : l[1] # "-")
    IN  Join([i \in 1..Len(kept) |-> Tail(kept[i])])
            \o (IF kept # <<>> THEN <<NL>> ELSE <<>>)

\* Number of context lines a script starts with.
RECURSIVE LeadingContext(_)
LeadingContext(script) ==
    IF script = <<>> \/ script[1][1] # " " THEN 0
    ELSE 1 + LeadingContext(Tail(script))

\* Number of context lines a script ends with.
RECURSIVE TrailingContext(_)
TrailingContext(script) ==
    IF script = <<>> \/ Last(script)[1] # " " THEN 0
    ELSE 1 + TrailingContext(SubSeq(script, 1, Len(script) - 1))

\* The arguments are the old content and the one hunk a diff tool derives
\* from (old, new): old is absent or ends with a newline, the hunk shows the
\* changed lines with some or all of the unchanged lines around them, and
\* starts at the first old line it shows.
Derive ==
    /\ p_pc = "input"
    /\ p_hunks = <<>>
    /\ p_old = NoneBytes \/ (p_old # <<>> /\ Last(p_old) = NL)
    /\ LET old_lines == IF p_old = NoneBytes THEN <<>>
                        ELSE SubSeq(Split(p_old), 1, Len(Split(p_old)) - 1)
           n == Len(old_lines)
       IN  \E keep \in [1..n -> BOOLEAN] :
           \E ins \in [1..(n + 1) -> {<<>>} \cup OldTexts] :
             LET script == ScriptLines(old_lines, keep, ins)
             IN  /\ \E i \in DOMAIN script : script[i][1] # " "
                 /\ \E lead \in 0..LeadingContext(script) :
                    \E trail \in 0..TrailingContext(script) :
                       /\ n > 0 =>
                             \E i \in (1 + lead)..(Len(script) - trail) :
                                 script[i][1] # "+"
                       /\ p_hunks' =
                             <<[oldOffset |-> IF n = 0 THEN 0 ELSE 1 + lead,
                                corpus |-> SubSeq(script, 1 + lead,
                                                  Len(script) - trail)]>>
                       /\ p_new' = ScriptNew(script)
    /\ p_pc' = "derived"
    /\ UNCHANGED <<p_old, p_res>>
    /\ UNCHANGED not_patch_vars

\* The call _patch_data(old, change).
PatchData ==
    /\ p_pc \in {"input", "derived"}
    /\ p_res' = _patch_data(p_old, p_hunks)
    /\ p_pc' = "done"
    /\ UNCHANGED <<p_old, p_hunks, p_new>>
    /\ UNCHANGED not_patch_vars

SeqIdle ==
    /\ ndiffs = 0
    /\ base = <<>>
    /\ applies = <<>>
    /\ unsupported = 0
    /\ diffs_as_list = FALSE
    /\ mapping = <<>>
    /\ created = <<>>
    /\ rev_results = [state |-> "absent", results |-> <<>>]
    /\ pc = "idle"
    /\ results = <<>>
    /\ to_apply = <<>>
    /\ orig_diffs = <<>>
    /\ start_results = <<>>
    /\ attempts = <<>>
    /\ ret = NoReturn
    /\ inner_ret = NoReturn

PatchIdle ==
    /\ p_old = NoneBytes
    /\ p_hunks = <<>>
    /\ p_new = NoneBytes
    /\ p_pc = "off"
    /\ p_res = NoResult

\* ------------------------------------------------------------------------
\* The Change Applier and the Commit Materializer (ArcanistHg._apply_diff)
\* ------------------------------------------------------------------------
\* One call _apply_diff(node, diff, rev, metadata): a_node is the candidate,
\* a_tree the files of the candidate (path -> blob, NoneBytes when the
\* manifest has no such path), a_prev is metadata.prev_commit.node (None
\* when there is no previous commit) and a_changes is diff.changes.  Paths
\* are relative to the repository root (path_prefix is '.').

\* largest number of changes of one diff
MaxChanges == 2

Paths == {"s", "t"}

\* change.old_path is None
NoPath == "None"

\* The values of change.type that hg.py 309-353 names.  The class ChangeSet
\* of revision.py does not define them; they are the tags of the protocol.
TYPE_ADD == "TYPE_ADD"

TYPE_CHANGE == "TYPE_CHANGE"

TYPE_DELETE == "TYPE_DELETE"

TYPE_MOVE_AWAY == "TYPE_MOVE_AWAY"

TYPE_COPY_AWAY == "TYPE_COPY_AWAY"

TYPE_MOVE_HERE == "TYPE_MOVE_HERE"

TYPE_COPY_HERE == "TYPE_COPY_HERE"

TYPE_MULTICOPY == "TYPE_MULTICOPY"

TYPE_MESSAGE == "TYPE_MESSAGE"

TYPE_CHILD == "TYPE_CHILD"

\* A value of change.type that is none of the above.
TYPE_UNKNOWN == "TYPE_UNKNOWN"

\* An entry of new_data: (data, old_path), or no entry for the path.
NoEntry == [set |-> FALSE, data |-> NoneBytes, copied |-> NoPath]

Entry(data, old_path) == [set |-> TRUE, data |-> data, copied |-> old_path]

\* What a call of _apply_diff_path leaves: new_data and the exception.
PathDone(nd) == [new_data |-> nd, exc |-> "none", msg |-> "none"]

PathRaise(nd, exc, msg) == [new_data |-> nd, exc |-> exc, msg |-> msg]

\* hg.py 365-370: node[path] raises ManifestLookupError.
_check_file_present(tree, path) == tree[path] # NoneBytes

\* The existence test that accepts every path.
_check_file_not_present_never(tree, path) == TRUE

\* hg.py 372-378: TRUE when the check passes.
_check_file_not_present(tree, path) == tree[path] = NoneBytes

\* hg.py 358-363: the blob; NoneBytes stands for the PathPatchError raised.
_get_path_data(tree, path) == tree[path]

\* new_data[path] = (self._patch_data(old, change), copied)
PatchInto(nd, path, old, change, copied) ==
    LET r == _patch_data(old, change.hunks)
    IN  IF r.ok THEN PathDone([nd EXCEPT ![path] = Entry(r.data, copied)])
        ELSE PathRaise(nd, "PathPatchError", r.err.kind)

\* The source of a MoveHere/CopyHere read from the entries of new_data
\* (where a MoveAway handled before it has left None) instead of the
\* candidate.
SourceDataFromNewData(tree, nd, path) ==
    IF nd[path].set THEN nd[path].data ELSE tree[path]

\* hg.py 339: the source of a MoveHere/CopyHere is read from the candidate.
SourceData(tree, nd, path) == _get_path_data(tree, path)

\* hg.py 308-356
_apply_diff_path(tree, change, nd) ==
    LET new_path == change.current_path
        old_path == change.old_path
    IN  IF change.type = TYPE_ADD
        THEN IF ~_check_file_not_present(tree, new_path)
             THEN PathRaise(nd, "PathPatchError", "already_exists")
             ELSE PatchInto(nd, new_path, NoneBytes, change, NoPath)
        ELSE IF change.type = TYPE_CHANGE
        THEN IF new_path # old_path
             THEN PathRaise(nd, "AssertionError", "none")
             ELSE IF _get_path_data(tree, old_path) = NoneBytes
             THEN PathRaise(nd, "PathPatchError", "does_not_exist")
             ELSE PatchInto(nd, new_path, _get_path_data(tree, old_path),
                            change, NoPath)
        ELSE IF change.type = TYPE_DELETE
        THEN IF ~_check_file_present(tree, new_path)
             THEN PathRaise(nd, "PathPatchError", "does_not_exist")
             ELSE PathDone([nd EXCEPT ![new_path] = Entry(NoneBytes, NoPath)])
        ELSE IF change.type = TYPE_MOVE_AWAY
        THEN IF old_path # NoPath
             THEN PathRaise(nd, "AssertionError", "none")
             ELSE PathDone([nd EXCEPT ![new_path] = Entry(NoneBytes, NoPath)])
        ELSE IF change.type = TYPE_COPY_AWAY
        THEN PathDone(nd)
        ELSE IF change.type \in {TYPE_MOVE_HERE, TYPE_COPY_HERE}
        THEN IF new_path = old_path
             THEN PathRaise(nd, "AssertionError", "none")
             ELSE IF ~_check_file_not_present(tree, new_path)
             THEN PathRaise(nd, "PathPatchError", "already_exists")
             ELSE IF SourceData(tree, nd, old_path) = NoneBytes
             THEN PathRaise(nd, "PathPatchError", "does_not_exist")
             ELSE PatchInto(nd, new_path, SourceData(tree, nd, old_path),
                            change, old_path)
        ELSE PathRaise(nd, "Exception", "unhandled")

\* hg.py 271: bad_path = change.current_path or change.old_path
BadPath(change) ==
    IF change.current_path # NoPath THEN change.current_path
    ELSE change.old_path

\* The loop over diff.changes left at the first PathPatchError.
KeepGoingFailFast(bad) == \A p \in Paths : bad[p] = "none"

\* hg.py 267-272: a PathPatchError is recorded and the loop goes on.
KeepGoing(bad) == TRUE

\* hg.py 290-293 and 299: the parents handed to memctx.
MemctxParents(node, prev) ==
    IF prev = None THEN <<node, None>> ELSE <<node, prev>>

\* The parents of the commit memctx describes: a None parent is the null
\* revision and is no parent.
ParentList(parents) == SelectSeq(parents, LAMBDA p : p # None)

NoOutcome == [kind |-> "none", parents |-> <<>>, paths |-> {}, saved |-> FALSE]

\* ---- the arguments the calls are made with ----

\* Blobs of the files of a candidate.
Blobs == {<<"a", NL>>, <<"b", NL>>}

\* Hunks of a change with prior content: none, or line 1 "a" replaced by "b".
ChangeHunks ==
    {<<>>, <<[oldOffset |-> 1, corpus |-> <<<<"-", "a">>, <<"+", "b">>>>]>>}

\* Hunks of an Add: the line "a" added at offset 0, or no hunk (the file
\* added is empty).
AddHunks == {<<>>, <<[oldOffset |-> 0, corpus |-> <<<<"+", "a">>>>]>>}

\* The changes of a diff, with the path fields the protocol gives each type.
Changes ==
    {[type |-> TYPE_ADD, old_path |-> NoPath, current_path |-> p,
      hunks |-> h] : p \in Paths, h \in AddHunks}
  \cup
    {[type |-> TYPE_CHANGE, old_path |-> p, current_path |-> p,
      hunks |-> h] : p \in Paths, h \in ChangeHunks}
  \cup
    {[type |-> TYPE_DELETE, old_path |-> p, current_path |-> p,
      hunks |-> <<>>] : p \in Paths}
  \cup
    {[type |-> ty, old_path |-> NoPath, current_path |-> p,
      hunks |-> <<>>] : ty \in {TYPE_MOVE_AWAY, TYPE_COPY_AWAY}, p \in Paths}
  \cup
    {[type |-> ty, old_path |-> pq[1], current_path |-> pq[2], hunks |-> h] :
        ty \in {TYPE_MOVE_HERE, TYPE_COPY_HERE},
        pq \in {x \in Paths \X Paths : x[1] # x[2]}, h \in ChangeHunks}
  \cup
    {[type |-> ty, old_path |-> NoPath, current_path |-> "s",
      hunks |-> <<>>] :
        ty \in {TYPE_MULTICOPY, TYPE_MESSAGE, TYPE_CHILD, TYPE_UNKNOWN}}

\* hg.py 267-272: one iteration of the loop over diff.changes.
ApplyDiffPath ==
    /\ a_pc = "loop"
    /\ Len(a_log) < Len(a_changes)
    /\ KeepGoing(bad_paths)
    /\ LET change == a_changes[Len(a_log) + 1]
           r      == _apply_diff_path(a_tree, change, new_data)
       IN  /\ new_data' = r.new_data
           /\ a_log' = Append(a_log, [exc |-> r.exc, msg |-> r.msg])
           /\ bad_paths' = IF r.exc = "PathPatchError"
                           THEN [bad_paths EXCEPT ![BadPath(change)] = r.msg]
                           ELSE bad_paths
           /\ IF r.exc \in {"none", "PathPatchError"}
              THEN UNCHANGED <<a_pc, a_res>>
              ELSE /\ a_pc' = "done"
                   /\ a_res' = [NoOutcome EXCEPT !.kind = r.exc]
    /\ UNCHANGED <<a_node, a_tree, a_prev, a_changes>>
    /\ UNCHANGED not_apply_vars

\* hg.py 273-306: after the loop, raise BadPatchError or commit and save the
\* mapping.
ApplyDiffCommit ==
    /\ a_pc = "loop"
    /\ Len(a_log) = Len(a_changes) \/ ~KeepGoing(bad_paths)
    /\ a_res' = IF \E p \in Paths : bad_paths[p] # "none"
                THEN [kind |-> "BadPatchError", parents |-> <<>>,
                      paths |-> {p \in Paths : bad_paths[p] # "none"},
                      saved |-> FALSE]
                ELSE [kind |-> "commit",
                      parents |-> MemctxParents(a_node, a_prev),
                      paths |-> {p \in Paths : new_data[p].set},
                      saved |-> TRUE]
    /\ a_pc' = "done"
    /\ UNCHANGED <<a_node, a_tree, a_prev, a_changes, new_data, bad_paths,
                   a_log>>
    /\ UNCHANGED not_apply_vars

ApplyIdle ==
    /\ a_node = None
    /\ a_tree = [p \in Paths |-> NoneBytes]
    /\ a_prev = None
    /\ a_changes = <<>>
    /\ new_data = [p \in Paths |-> NoEntry]
    /\ bad_paths = [p \in Paths |-> "none"]
    /\ a_log = <<>>
    /\ a_pc = "off"
    /\ a_res = NoOutcome

\* ------------------------------------------------------------------------
\* The merged ancestor walk (ArcanistHg._remotefilelog_candidate_commits)
\* ------------------------------------------------------------------------
\* The commits of the repository are numbered by revision number (a larger
\* number is a more recent commit); w_parent[c] is the parent of c (0 for a
\* root) and w_touched[p] the commits that changed path p.

\* number of commits of the repository the walk runs in
MaxRevs == 3

Revs == 1..MaxRevs

\* _old_paths(diff): the old paths of the diff's changes, in their order.
_old_paths == <<"s", "t">>

\* commit.filectx(path).linkrev(): the most recent commit among commit and
\* its ancestors that changed the path; 0 stands for ManifestLookupError.
RECURSIVE linkrev(_, _, _)
linkrev(parent, touched, commit) ==
    IF commit = 0 THEN 0
    ELSE IF commit \in touched THEN commit
    ELSE linkrev(parent, touched, parent[commit])

\* fctx.ancestors(): the link revisions the generator yields, in order.
RECURSIVE ancestors(_, _, _)
ancestors(parent, touched, rev) ==
    LET n == linkrev(parent, touched, parent[rev])
    IN  IF n = 0 THEN <<>> ELSE <<n>> \o ancestors(parent, touched, n)

\* The test "rev in seen" answering no for every revision.
SeenNever(rev, sn) == FALSE

\* hg.py 192 and 209: rev in seen
Seen(rev, sn) == rev \in sn

\* hg.py 181-195: the loop over the old paths for one head.
RECURSIVE AddFctxs(_, _, _, _, _, _)
AddFctxs(parent, touched, commit, i, sn, heap) ==
    IF i > Len(_old_paths) THEN [seen |-> sn, rev_heap |-> heap]
    ELSE LET path == _old_paths[i]
             rev  == linkrev(parent, touched[path], commit)
         IN  IF rev = 0 \/ Seen(rev, sn)
             THEN AddFctxs(parent, touched, commit, i + 1, sn, heap)
             ELSE AddFctxs(parent, touched, commit, i + 1, sn \cup {rev},
                           Append(heap,
                                  [rev |-> rev,
                                   gen |-> ancestors(parent, touched[path],
                                                     rev)]))

\* The heap read at its last item instead of its smallest key.
HeapTopLast(heap) == Len(heap)

\* rev_heap[0]: the position of the item with the smallest key -rev, that
\* is with the largest rev.
HeapTop(heap) ==
    CHOOSE i \in DOMAIN heap :
        /\ \A j \in DOMAIN heap : heap[j].rev <= heap[i].rev
        /\ \A j \in 1..(i - 1) : heap[j].rev < heap[i].rev

RemoveAt(s, i) == SubSeq(s, 1, i - 1) \o SubSeq(s, i + 1, Len(s))

\* heapq.heappop(rev_heap)
heappop(heap) == RemoveAt(heap, HeapTop(heap))

\* heapq.heappushpop(rev_heap, item): the item takes the place of heap[0]
\* when heap[0] < item, else it is handed back and the heap is unchanged.
heappushpop(heap, item) ==
    IF heap # <<>> /\ heap[HeapTop(heap)].rev > item.rev
    THEN [heap EXCEPT ![HeapTop(heap)] = item]
    ELSE heap

\* hg.py 178-195: one iteration of the loop over commits_to_check (a set:
\* the heads come in any order).
WalkAddHead ==
    /\ w_pc = "heads"
    /\ \E commit \in w_todo :
          LET r == AddFctxs(w_parent, w_touched, commit, 1, seen, rev_heap)
          IN  /\ seen' = r.seen
              /\ rev_heap' = r.rev_heap
              /\ w_todo' = w_todo \ {commit}
              /\ w_started' = {r.rev_heap[i] : i \in DOMAIN r.rev_heap}
              /\ w_pc' = IF w_todo' # {} THEN "heads"
                         ELSE IF r.rev_heap # <<>> THEN "walk" ELSE "done"
    /\ UNCHANGED <<w_parent, w_touched, commits_to_check, w_out>>
    /\ UNCHANGED not_walk_vars

\* hg.py 202-219: one iteration of the loop over the heap.
WalkYield ==
    /\ w_pc = "walk"
    /\ LET item == rev_heap[HeapTop(rev_heap)]
           next_rev == IF item.gen = <<>> THEN None
                       ELSE IF Seen(Head(item.gen), seen) THEN None
                       ELSE Head(item.gen)
       IN  /\ w_out' = Append(w_out, item.rev)
           /\ IF next_rev = None
              THEN /\ rev_heap' = heappop(rev_heap)
                   /\ seen' = seen
              ELSE /\ rev_heap' = heappushpop(rev_heap,
                                              [rev |-> next_rev,
                                               gen |-> Tail(item.gen)])
                   /\ seen' = seen \cup {next_rev}
           /\ w_pc' = IF rev_heap' = <<>> THEN "done" ELSE "walk"
    /\ UNCHANGED <<w_parent, w_touched, commits_to_check, w_todo, w_started>>
    /\ UNCHANGED not_walk_vars

WalkIdle ==
    /\ w_parent = <<>>
    /\ w_touched = [p \in Paths |-> {}]
    /\ commits_to_check = {}
    /\ w_todo = {}
    /\ w_started = {}
    /\ seen = {}
    /\ rev_heap = <<>>
    /\ w_out = <<>>
    /\ w_pc = "off"

\* ------------------------------------------------------------------------
\* One call of ArcanistHg.apply_diff, candidate by candidate (hg.py 51-95)
\* ------------------------------------------------------------------------

NoResolve == [kind |-> "none", node |-> None, paths |-> {}]

\* The candidates of this call.
r_candidates == CandidateCommits(r_prev_p1, r_filelog, commit_nums)

\* hg.py 60-66: the declared base is a commit of the repository; _apply_diff
\* is called on it outside of any try.
ResolveBase ==
    /\ r_pc = "start"
    /\ r_parent # None
    /\ r_tried' = <<r_parent>>
    /\ r_res' = IF r_bad[r_parent] = {}
                THEN [kind |-> "commit", node |-> r_parent, paths |-> {}]
                ELSE [kind |-> "BadPatchError", node |-> r_parent,
                      paths |-> r_bad[r_parent]]
    /\ r_pc' = "done"
    /\ UNCHANGED <<r_parent, r_prev_p1, r_filelog, commit_nums, r_bad, r_pos,
                   r_ex>>
    /\ UNCHANGED not_resolve_vars

\* hg.py 84-92: the generator yields one more candidate and _apply_diff is
\* called on it; a BadPatchError is logged and the loop goes on.
ResolveTry ==
    /\ \/ r_pc = "start" /\ r_parent = None
       \/ r_pc = "loop"
    /\ r_pos < Len(r_candidates.cands)
    /\ LET node == r_candidates.cands[r_pos + 1]
       IN  /\ r_tried' = Append(r_tried, node)
           /\ r_pos' = r_pos + 1
           /\ IF r_bad[node] = {}
              THEN /\ r_res' = [kind |-> "commit", node |-> node,
                                paths |-> {}]
                   /\ r_pc' = "done"
                   /\ UNCHANGED r_ex
              ELSE /\ r_ex' = r_bad[node]
                   /\ r_pc' = "loop"
                   /\ UNCHANGED r_res
    /\ UNCHANGED <<r_parent, r_prev_p1, r_filelog, commit_nums, r_bad>>
    /\ UNCHANGED not_resolve_vars

\* The generator ends: by the exception of candidates_fn, which leaves
\* apply_diff as it is, or exhausted, and hg.py 94-95 raises
\* PatchFailedError, whose only content is its message (err.py 27-28).
ResolveEnd ==
    /\ \/ r_pc = "start" /\ r_parent = None
       \/ r_pc = "loop"
    /\ r_pos = Len(r_candidates.cands)
    /\ r_res' = [kind |-> IF r_candidates.exc # "none"
                          THEN r_candidates.exc ELSE "PatchFailedError",
                 node |-> None, paths |-> {}]
    /\ r_pc' = "done"
    /\ UNCHANGED <<r_parent, r_prev_p1, r_filelog, commit_nums, r_bad, r_pos,
                   r_tried, r_ex>>
    /\ UNCHANGED not_resolve_vars

ResolveIdle ==
    /\ r_parent = None
    /\ r_prev_p1 = None
    /\ r_filelog = FALSE
    /\ commit_nums = {}
    /\ r_bad = <<>>
    /\ r_pos = 0
    /\ r_tried = <<>>
    /\ r_ex = {}
    /\ r_pc = "off"
    /\ r_res = NoResolve

\* ------------------------------------------------------------------------
\* The mapping file as text (hg.py 518-543)
\* ------------------------------------------------------------------------

\* largest number of appends made to the file
MaxAppends == 2

\* The diff ids and the hexadecimal commit ids the lines are written for.
FileIds == {1, 12}
FileNodes == {<<"a", "b">>, <<"1", "f">>}
FileEntries == [diff : FileIds, node : FileNodes]

DigitChars == <<"0", "1", "2", "3", "4", "5", "6", "7", "8", "9">>
IsDigit(c) == \E i \in DOMAIN DigitChars : DigitChars[i] = c
IsHex(c) == IsDigit(c) \/ c \in {"a", "b", "c", "d", "e", "f",
                                 "A", "B", "C", "D", "E", "F"}

\* '%d' % n
RECURSIVE Digits(_)
Digits(n) ==
    IF n < 10 THEN <<DigitChars[n + 1]>>
    ELSE Digits(n \div 10) \o <<DigitChars[(n % 10) + 1]>>

\* int(s) of a string of digits
RECURSIVE IntFrom(_, _, _)
IntFrom(str, i, acc) ==
    IF i > Len(str) THEN acc
    ELSE IntFrom(str, i + 1,
                 10 * acc + (CHOOSE v \in 0..9 : DigitChars[v + 1] = str[i]))

IntOf(str) == IntFrom(str, 1, 0)

\* hg.py 540: line = '%d: %s\n' % (diff.id, node.hex())
MappingLine(e) == Digits(e.diff) \o <<":", " ">> \o e.node \o <<NL>>

\* for line in f: the text cut after every newline; what follows the last
\* newline is a line too, unless it is empty.
RECURSIVE FileLinesFrom(_, _, _)
FileLinesFrom(text, i, cur) ==
    IF i > Len(text) THEN (IF cur = <<>> THEN <<>> ELSE <<cur>>)
    ELSE IF text[i] = NL
         THEN <<Append(cur, NL)>> \o FileLinesFrom(text, i + 1, <<>>)
         ELSE FileLinesFrom(text, i + 1, Append(cur, text[i]))

FileLines(text) == FileLinesFrom(text, 1, <<>>)

\* Number of digits a string starts with.
RECURSIVE LeadingDigits(_, _)
LeadingDigits(str, i) ==
    IF i <= Len(str) /\ IsDigit(str[i]) THEN LeadingDigits(str, i + 1)
    ELSE i - 1

\* hg.py 520, 524: regex.match(line) for ^([0-9]+): ([0-9a-fA-F]+)$, where $
\* matches at the end of the line and before a newline that ends it.
RegexMatch(line) ==
    LET body == IF line # <<>> /\ line[Len(line)] = NL
                THEN SubSeq(line, 1, Len(line) - 1) ELSE line
        k    == LeadingDigits(body, 1)
    IN  IF /\ k >= 1
           /\ Len(body) >= k + 3
           /\ body[k + 1] = ":"
           /\ body[k + 2] = " "
           /\ \A i \in (k + 3)..Len(body) : IsHex(body[i])
        THEN [matched |-> TRUE, group1 |-> SubSeq(body, 1, k),
              group2 |-> SubSeq(body, k + 3, Len(body))]
        ELSE [matched |-> FALSE, group1 |-> <<>>, group2 |-> <<>>]

\* hg.py 523-527: the loop over the lines; results as the set of its
\* (key, value) pairs.  On a line the regex does not match, m is None and
\* m.group raises AttributeError, which line 528 does not catch.
RECURSIVE LoadLines(_, _, _)
LoadLines(lines, i, acc) ==
    IF i > Len(lines) THEN [kind |-> "ok", map |-> acc]
    ELSE LET m == RegexMatch(lines[i])
         IN  IF ~m.matched THEN [kind |-> "AttributeError", map |-> {}]
             ELSE LET diff_id == IntOf(m.group1)
                  IN  LoadLines(lines, i + 1,
                                {e \in acc : e[1] # diff_id}
                                    \cup {<<diff_id, m.group2>>})

\* hg.py 518-533: _load_diff_mappings on a file holding text.
LoadMappingFile(text) == LoadLines(FileLines(text), 1, {})

NoLoad == [kind |-> "none", map |-> {}]

\* hg.py 535-543: _save_diff_mapping writes its line.  A diff gets one line
\* (the Sequencer never applies a mapped diff).
SaveDiffMapping ==
    /\ f_pc = "write"
    /\ Len(f_done) + f_cuts < MaxAppends
    /\ \E e \in FileEntries :
          /\ \A i \in DOMAIN f_done : f_done[i].diff # e.diff
          /\ f_text' = f_text \o MappingLine(e)
          /\ f_done' = Append(f_done, e)
    /\ f_last_cut' = FALSE
    /\ UNCHANGED <<f_cuts, f_pc, f_res>>
    /\ UNCHANGED not_file_vars

\* hg.py 542-543 interrupted: the run ends (a crash, a full disk) when only
\* the first k characters of the line have reached the file.
SaveInterrupted ==
    /\ f_pc = "write"
    /\ Len(f_done) + f_cuts < MaxAppends
    /\ \E e \in FileEntries :
          /\ \A i \in DOMAIN f_done : f_done[i].diff # e.diff
          /\ \E k \in 1..(Len(MappingLine(e)) - 1) :
                f_text' = f_text \o SubSeq(MappingLine(e), 1, k)
    /\ f_cuts' = f_cuts + 1
    /\ f_last_cut' = TRUE
    /\ UNCHANGED <<f_done, f_pc, f_res>>
    /\ UNCHANGED not_file_vars

\* hg.py 518-533: a later run loads the file.
LoadDiffMappings ==
    /\ f_pc = "write"
    /\ f_res' = LoadMappingFile(f_text)
    /\ f_pc' = "loaded"
    /\ UNCHANGED <<f_text, f_done, f_cuts, f_last_cut>>
    /\ UNCHANGED not_file_vars

FileIdle ==
    /\ f_text = <<>>
    /\ f_done = <<>>
    /\ f_cuts = 0
    /\ f_last_cut = FALSE
    /\ f_pc = "off"
    /\ f_res = NoLoad

\* ------------------------------------------------------------------------
\* get_dc_commit_chain (gitreview/diffcamp/dcgit.py 69-149)
\* ------------------------------------------------------------------------

\* largest number of commits of the git repository
MaxGit == 4

\* The revision the chain is asked for.
rev_id == 1

\* commit.parents
Parents(c) ==
    (IF c > 1 THEN <<c - 1>> ELSE <<>>)
        \o (IF g_p2[c] # None THEN <<g_p2[c]>> ELSE <<>>)

NoChain == [kind |-> "none", chain |-> <<>>]

\* dcgit.py 78-102: resolve the ref and parse the head commit.
ChainStart ==
    /\ g_pc = "start"
    /\ IF g_ref = None
       THEN /\ g_res' = [kind |-> "ok", chain |-> <<>>]
            /\ g_pc' = "done"
            /\ UNCHANGED <<g_commit, commit_chain>>
       ELSE IF g_rev[g_ref] = 0
       THEN /\ g_res' = [kind |-> "NotADiffcampCommitError", chain |-> <<>>]
            /\ g_pc' = "done"
            /\ UNCHANGED <<g_commit, commit_chain>>
       ELSE /\ g_commit' = g_ref
            /\ commit_chain' = <<g_ref>>
            /\ g_pc' = "walk"
            /\ UNCHANGED g_res
    /\ UNCHANGED <<g_n, g_rev, g_p2, g_ref>>
    /\ UNCHANGED not_chain_vars

\* dcgit.py 103-130: one iteration of the walk along the first parents.
ChainWalk ==
    /\ g_pc = "walk"
    /\ IF Parents(g_commit) = <<>>
       THEN /\ g_pc' = "set"
            /\ UNCHANGED <<g_commit, commit_chain>>
       ELSE LET parent == Parents(g_commit)[1]
            IN  /\ g_commit' = parent
                /\ IF g_rev[parent] = 0 \/ g_rev[parent] # rev_id
                   THEN /\ g_pc' = "set"
                        /\ UNCHANGED commit_chain
                   ELSE /\ commit_chain' = Append(commit_chain, parent)
                        /\ UNCHANGED g_pc
    /\ UNCHANGED <<g_n, g_rev, g_p2, g_ref, g_res>>
    /\ UNCHANGED not_chain_vars

\* dcgit.py 135-144: the loop that sets appliedOnto, over commit_chain as
\* the walk built it (the head first).
RECURSIVE SetAppliedOnto(_, _, _, _)
SetAppliedOnto(chain, i, applied_onto, acc) ==
    IF i > Len(chain) THEN acc
    ELSE LET onto == IF Len(Parents(chain[i])) > 1
                     THEN Parents(chain[i])[2] ELSE applied_onto
         IN  SetAppliedOnto(chain, i + 1, onto,
                            Append(acc, [commit |-> chain[i],
                                         appliedOnto |-> onto]))

\* list.reverse()
Reverse(seq) == [i \in 1..Len(seq) |-> seq[Len(seq) + 1 - i]]

\* dcgit.py 132-149: set appliedOnto, reverse, return.
ChainFinish ==
    /\ g_pc = "set"
    /\ g_res' =
          IF Parents(commit_chain[1]) = <<>>
          THEN [kind |-> "IndexError", chain |-> <<>>]
          ELSE [kind |-> "ok",
                chain |-> Reverse(SetAppliedOnto(commit_chain, 1,
                                      Parents(commit_chain[1])[1], <<>>))]
    /\ g_pc' = "done"
    /\ UNCHANGED <<g_n, g_rev, g_p2, g_ref, g_commit, commit_chain>>
    /\ UNCHANGED not_chain_vars

ChainIdle ==
    /\ g_n = 0
    /\ g_rev = <<>>
    /\ g_p2 = <<>>
    /\ g_ref = None
    /\ g_commit = None
    /\ commit_chain = <<>>
    /\ g_pc = "off"
    /\ g_res = NoChain

\* ---- the specifications of the single calls ----

InitPatch ==
    /\ SeqIdle
    /\ ApplyIdle
    /\ WalkIdle
    /\ ResolveIdle
    /\ FileIdle
    /\ ChainIdle
    /\ p_old \in Olds
    /\ p_hunks = <<>>
    /\ p_new = NoneBytes
    /\ p_pc = "input"
    /\ p_res = NoResult

NextPatch ==
    \/ NewHunk
    \/ AddLine
    \/ Derive
    \/ PatchData

SpecPatch == InitPatch /\ [][NextPatch]_vars


\* A commit made for an earlier diff of the revision.
EarlierCommit == NumBase + 1

\* The candidate is the tip of master or, being what '.' resolves to, the
\* commit made for the previous diff; the chain parent is absent or that
\* commit.
InitApply ==
    /\ SeqIdle
    /\ PatchIdle
    /\ WalkIdle
    /\ ResolveIdle
    /\ FileIdle
    /\ ChainIdle
    /\ a_node \in {MasterTip, EarlierCommit}
    /\ a_prev \in {None, EarlierCommit}
    /\ a_node = EarlierCommit => a_prev = EarlierCommit
    /\ a_tree \in [Paths -> {NoneBytes} \cup Blobs]
    /\ a_changes \in SeqsUpTo(Changes, MaxChanges)
    /\ new_data = [p \in Paths |-> NoEntry]
    /\ bad_paths = [p \in Paths |-> "none"]
    /\ a_log = <<>>
    /\ a_pc = "loop"
    /\ a_res = NoOutcome

NextApply ==
    \/ ApplyDiffPath
    \/ ApplyDiffCommit

SpecApply == InitApply /\ [][NextApply]_vars

\* Every commit has an older parent or none; the heads are remote/master
\* and the author's heads.
InitWalk ==
    /\ SeqIdle
    /\ PatchIdle
    /\ ApplyIdle
    /\ ResolveIdle
    /\ FileIdle
    /\ ChainIdle
    /\ w_parent \in {f \in [Revs -> 0..(MaxRevs - 1)] : \A c \in Revs : f[c] < c}
    /\ w_touched \in [Paths -> SUBSET Revs]
    /\ commits_to_check \in (SUBSET Revs) \ {{}}
    /\ w_todo = commits_to_check
    /\ w_started = {}
    /\ seen = {}
    /\ rev_heap = <<>>
    /\ w_out = <<>>
    /\ w_pc = "heads"

NextWalk ==
    \/ WalkAddHead
    \/ WalkYield

SpecWalk == InitWalk /\ [][NextWalk]_vars

\* The diff has or has no declared base and previous commit; any set of the
\* pre-existing commits changed its old paths (none: the diff only adds
\* files); on each commit any set of its paths may fail to apply.
InitResolve ==
    /\ SeqIdle
    /\ PatchIdle
    /\ ApplyIdle
    /\ WalkIdle
    /\ FileIdle
    /\ ChainIdle
    /\ r_parent \in BaseCommits \cup {None}
    /\ r_prev_p1 \in BaseCommits \cup {None}
    /\ r_filelog \in BOOLEAN
    /\ commit_nums \in SUBSET BaseCommits
    /\ r_bad \in [BaseCommits -> SUBSET Paths]
    /\ r_pos = 0
    /\ r_tried = <<>>
    /\ r_ex = {}
    /\ r_pc = "start"
    /\ r_res = NoResolve

NextResolve ==
    \/ ResolveBase
    \/ ResolveTry
    \/ ResolveEnd

SpecResolve == InitResolve /\ [][NextResolve]_vars

\* The file does not exist yet.
InitFile ==
    /\ SeqIdle
    /\ PatchIdle
    /\ ApplyIdle
    /\ WalkIdle
    /\ ResolveIdle
    /\ ChainIdle
    /\ f_text = <<>>
    /\ f_done = <<>>
    /\ f_cuts = 0
    /\ f_last_cut = FALSE
    /\ f_pc = "write"
    /\ f_res = NoLoad

NextFile ==
    \/ SaveDiffMapping
    \/ SaveInterrupted
    \/ LoadDiffMappings

SpecFile == InitFile /\ [][NextFile]_vars

\* Any commit may carry the DiffCamp fields of this revision or of another
\* one, or none; a commit may have an older commit as second parent; the
\* ref, when it exists, points to the newest commit.
InitChain ==
    /\ SeqIdle
    /\ PatchIdle
    /\ ApplyIdle
    /\ WalkIdle
    /\ ResolveIdle
    /\ FileIdle
    /\ g_n \in 1..MaxGit
    /\ g_rev \in [1..g_n -> 0..2]
    /\ g_p2 \in {f \in [1..g_n -> 0..MaxGit] :
                    \A c \in 1..g_n : f[c] = None \/ f[c] < c - 1}
    /\ g_ref \in {None, g_n}
    /\ g_commit = None
    /\ commit_chain = <<>>
    /\ g_pc = "start"
    /\ g_res = NoChain

NextChain ==
    \/ ChainStart
    \/ ChainWalk
    \/ ChainFinish

SpecChain == InitChain /\ [][NextChain]_vars

\* ------------------------------------------------------------------------
\* Properties of the Revision Sequencer and the Diff Applicator
\* ------------------------------------------------------------------------

Range(s) == {s[i] : i \in DOMAIN s}

MaxOf(S) == CHOOSE m \in S : \A o \in S : o <= m

\* The commit the mapping file records for diff d (its last line), or None.
MappedNode(d) ==
    LET S == {i \in DOMAIN mapping : mapping[i].diff = d}
    IN  IF S = {} THEN None ELSE mapping[MaxOf(S)].node

\* The commit of the last diff applied before attempt k of this run: by an
\* earlier attempt of the run, else the last commit found at its start.
ChainAnchor(k) ==
    LET S == {j \in 1..(k - 1) : attempts[j].ok}
    IN  IF S # {} THEN attempts[MaxOf(S)].commit
        ELSE IF start_results # <<>> THEN Last(start_results)
        ELSE None

AtLoopEntry == pc = "loop" /\ attempts = <<>>

MappedDiffs == {d \in 1..ndiffs : MappedNode(d) # None}

FirstGap ==
    IF \A d \in 1..ndiffs : d \in MappedDiffs THEN ndiffs + 1
    ELSE CHOOSE d \in 1..ndiffs :
            d \notin MappedDiffs /\ \A e \in 1..(d - 1) : e \in MappedDiffs

LastMapped == IF MappedDiffs = {} THEN 0 ELSE MaxOf(MappedDiffs)

\* C2 as claimed: at the start of a run only the contiguous mapped prefix
\* counts as applied, and every diff from the first unmapped one on is
\* re-attempted, mapped or not.
C2_ContiguousPrefix ==
    AtLoopEntry =>
        /\ results = [i \in 1..(FirstGap - 1) |-> MappedNode(i)]
        /\ to_apply = [i \in 1..(ndiffs - FirstGap + 1) |-> FirstGap - 1 + i]

\* C2 amended: at the start of a run every diff with a mapping entry counts
\* as applied (its recorded commit is a result, in diff id order), and the
\* diffs attempted are exactly the unmapped diffs after the last mapped one;
\* an unmapped diff before a mapped diff is not re-attempted.
C2_AfterLastMapped ==
    AtLoopEntry =>
        /\ Len(results) = Cardinality(MappedDiffs)
        /\ \A d \in MappedDiffs :
              results[Cardinality({e \in MappedDiffs : e <= d})] = MappedNode(d)
        /\ to_apply = [i \in 1..(ndiffs - LastMapped) |-> LastMapped + i]

\* C2 witness: a run starts with an unmapped diff before a mapped one and
\* with diffs left to attempt.
C2_Witness ==
    /\ AtLoopEntry
    /\ \E d \in MappedDiffs : \E e \in 1..(d - 1) : e \notin MappedDiffs
    /\ to_apply # <<>>

\* C3 (last-diff failure is fatal): a failed attempt for the last diff of the
\* revision ends the run by raising to the caller; the diffs applied before
\* it keep their commits and their mapping entries.
C3_LastDiffFatal ==
    \A k \in DOMAIN attempts :
        (~attempts[k].ok /\ attempts[k].diff = ndiffs) =>
            /\ k = Len(attempts)
            /\ pc = "idle"
            /\ ret.kind = "raise"
            /\ \A j \in 1..(k - 1) :
                  attempts[j].ok =>
                      /\ MappedNode(attempts[j].diff) = attempts[j].commit
                      /\ created[attempts[j].commit - NumBase].diff
                            = attempts[j].diff
            /\ \A i \in DOMAIN start_results :
                  \E d \in 1..ndiffs : MappedNode(d) = start_results[i]

\* C3 witness: the last diff failed after an earlier diff was applied in the
\* same run, and the run raised.
C3_Witness ==
    /\ pc = "idle"
    /\ ret.kind = "raise"
    /\ Len(attempts) >= 2
    /\ ~Last(attempts).ok
    /\ Last(attempts).diff = ndiffs
    /\ attempts[1].ok
    /\ MappedNode(attempts[1].diff) = attempts[1].commit

\* C4 (idempotent resume): once a run has returned successfully and the
\* mapping is non-empty, no later step creates a commit or appends a mapping
\* line, and every later call returns the same commits.
C4_IdempotentResume ==
    [][ (ret.kind = "ok" /\ ret.via \in {"run", "memo"} /\ mapping # <<>>) =>
            /\ mapping' = mapping
            /\ created' = created
            /\ ret'.kind = "ok"
            /\ ret'.value = ret.value ]_vars

\* C4 witness: a run by a new _Applier finished without attempting any diff
\* and returned recorded commits, one diff of the revision having been
\* skipped by the run that recorded them.
C4_Witness ==
    /\ pc = "idle"
    /\ ret.kind = "ok"
    /\ ret.via = "run"
    /\ attempts = <<>>
    /\ ret.value # <<>>
    /\ Len(ret.value) < ndiffs
    /\ \A i \in DOMAIN ret.value : \E d \in 1..ndiffs : MappedNode(d) = ret.value[i]

\* The whole candidate sequence of a diff in resolver order: the explicit
\* base when it resolves, then the heuristic candidates.
ResolverOrder(d, prev) ==
    (IF find_base_commit(d) # None THEN <<find_base_commit(d)>> ELSE <<>>)
        \o _candidate_commits(d, prev)

\* C5 as claimed: a rejected candidate is followed by the next candidate, the
\* explicit base included, so a diff fails only when every candidate of the
\* resolver sequence has been tried.
C5_NextCandidateAfterReject ==
    \A k \in DOMAIN attempts :
        ~attempts[k].ok =>
            \A c \in Range(ResolverOrder(attempts[k].diff, attempts[k].prev)) :
                c \in Range(attempts[k].tried)

\* The commits made for diff d.
CommitsOf(d) == {i \in DOMAIN created : created[i].diff = d}

\* C16 (unsupported changes): a diff that holds a change of an unsupported
\* kind is never committed and never mapped; its attempt stops at the first
\* candidate, is the last attempt of the run, and the run ends by raising to
\* its caller, also when more diffs remain.
C16_UnsupportedSurfaces ==
    /\ unsupported # 0 =>
          (CommitsOf(unsupported) = {} /\ MappedNode(unsupported) = None)
    /\ \A k \in DOMAIN attempts :
          attempts[k].diff = unsupported =>
              /\ ~attempts[k].ok
              /\ attempts[k].err = "Exception"
              /\ Len(attempts[k].tried) = 1
              /\ k = Len(attempts)
              /\ pc = "idle"
              /\ ret.kind = "raise"

\* C16 witness: after a diff was applied, a diff with more diffs behind it
\* and with no explicit base (so that more candidates were at hand) raised
\* for an unsupported change, and the run raised.
C16_Witness ==
    /\ Len(attempts) >= 2
    /\ attempts[1].ok
    /\ Last(attempts).diff = unsupported
    /\ unsupported < ndiffs
    /\ base[unsupported] = None
    /\ Len(_candidate_commits(unsupported, Last(attempts).prev)) > 1
    /\ pc = "idle"
    /\ ret.kind = "raise"

\* C17 (explicit-base priority): when the declared base of a diff resolves
\* to a commit, that commit is the first candidate the diff is applied to.
C17_ExplicitBaseFirst ==
    \A k \in DOMAIN attempts :
        base[attempts[k].diff] # None =>
            /\ attempts[k].tried # <<>>
            /\ attempts[k].tried[1] = base[attempts[k].diff]

\* C17 witness: a diff with a previous commit whose first parent is not the
\* diff's explicit base was applied, and the explicit base was tried first.
C17_Witness ==
    \E k \in DOMAIN attempts :
        /\ attempts[k].prev # None
        /\ base[attempts[k].diff] # None
        /\ base[attempts[k].diff] # P1(attempts[k].prev)
        /\ attempts[k].ok
        /\ attempts[k].tried[1] = base[attempts[k].diff]

\* C18 (deduplicated candidates) as claimed: no commit is handed to
\* _apply_diff twice for the same diff.
C18_NoCandidateTwice ==
    \A k \in DOMAIN attempts :
        \A i, j \in DOMAIN attempts[k].tried :
            i # j => attempts[k].tried[i] # attempts[k].tried[j]

\* The commits of the attempts that succeeded, in the order of the attempts.
AppliedCommits(atts) ==
    LET oks == SelectSeq(atts, LAMBDA a : a.ok)
    IN  [i \in 1..Len(oks) |-> oks[i].commit]

\* The diff a commit made by _apply_diff was made for.
DiffOf(c) == created[c - NumBase].diff

\* C23 (re-entrancy): a call of run for the revision id the running call is
\* processing returns the empty list at once and changes nothing of the
\* running call; when the running call then returns, it has memoized and
\* returns its own results: the commits found at its start followed by the
\* commits of its successful attempts.
C23_Reentrancy ==
    [][ /\ (pc = "loop" /\ pc' = "loop" /\ inner_ret' # inner_ret) =>
              /\ inner_ret' = [kind |-> "ok", via |-> "in_progress",
                               value |-> <<>>]
              /\ rev_results' = rev_results
              /\ mapping' = mapping
              /\ created' = created
              /\ attempts' = attempts
              /\ results' = results
              /\ to_apply' = to_apply
        /\ (pc = "loop" /\ inner_ret # NoReturn /\ pc' = "idle"
                /\ ret'.kind = "ok") =>
              /\ rev_results' = [state |-> "done", results |-> results]
              /\ ret'.value = results
              /\ results = start_results \o AppliedCommits(attempts)
      ]_vars

\* C23 witness: the running call has applied a diff, a call made from within
\* it has returned, and the running call is about to return its results.
C23_Witness ==
    /\ pc = "loop"
    /\ inner_ret # NoReturn
    /\ to_apply = <<>>
    /\ \E k \in DOMAIN attempts : attempts[k].ok
    /\ results # <<>>

\* C24 (ordering): the diffs of a run are attempted in strictly ascending
\* order of their ids, whatever order the source returned them in, and the
\* commits the run collects and returns are in that order too.
C24_AscendingOrder ==
    /\ \A i, j \in DOMAIN attempts :
          i < j => attempts[i].diff < attempts[j].diff
    /\ \A i, j \in DOMAIN results :
          i < j => DiffOf(results[i]) < DiffOf(results[j])
    /\ \A i, j \in DOMAIN ret.value :
          i < j => DiffOf(ret.value[i]) < DiffOf(ret.value[j])

\* C24 witness: the source returned the diffs in descending order, and the
\* run has attempted two of them and holds two commits.
C24_Witness ==
    /\ pc = "loop"
    /\ Len(orig_diffs) >= 2
    /\ orig_diffs[1] > orig_diffs[2]
    /\ Len(attempts) >= 2
    /\ Len(results) >= 2

\* C25 (mapping append-only and exact): the mapping file holds exactly one
\* line per commit made by _apply_diff, in the order the commits were made
\* and naming the commit and its diff; no diff id has two lines, and a diff
\* whose attempt failed has no line.
C25_MappingExact ==
    /\ Len(mapping) = Len(created)
    /\ \A i \in DOMAIN mapping :
          mapping[i] = [diff |-> created[i].diff, node |-> NumBase + i]
    /\ \A i, j \in DOMAIN mapping :
          i # j => mapping[i].diff # mapping[j].diff
    /\ \A k \in DOMAIN attempts :
          ~attempts[k].ok => MappedNode(attempts[k].diff) = None

\* C25 witness: a second run on the repository found a line of the first
\* run, and the file holds two lines although an attempt has failed.
C25_Witness ==
    /\ Len(mapping) >= 2
    /\ \E k \in DOMAIN attempts : ~attempts[k].ok
    /\ \E k \in DOMAIN attempts : attempts[k].ok

\* C29 (in-progress marker after a failure): when a call of run ends with an
\* exception the revision id stays in _rev_results with the value None, and
\* from then on every call on that applier returns the empty list and neither
\* attempts a diff nor touches the repository.
C29_MarkerAfterFailure ==
    [][ /\ (pc' = "idle" /\ ret'.kind = "raise"
                /\ (pc = "loop" \/ rev_results.state = "absent")) =>
              rev_results' = [state |-> "in_progress", results |-> <<>>]
        /\ (pc = "idle" /\ rev_results.state = "in_progress"
                /\ rev_results'.state # "absent") =>
              /\ rev_results' = rev_results
              /\ pc' = "idle"
              /\ ret' = [kind |-> "ok", via |-> "in_progress", value |-> <<>>]
              /\ attempts' = <<>>
              /\ mapping' = mapping
              /\ created' = created
      ]_vars

\* C29 witness: a run applied a diff and then raised, and a later call on the
\* same applier has returned the empty list.
C29_Witness ==
    /\ pc = "idle"
    /\ rev_results.state = "in_progress"
    /\ ret = [kind |-> "ok", via |-> "in_progress", value |-> <<>>]
    /\ mapping # <<>>

\* C22 (add-only diffs) as claimed: a diff none of whose paths has prior
\* content and whose declared base does not resolve is not given up before it
\* was attempted on the tip of master.
C22_AddOnlyTip ==
    (r_pc = "done" /\ commit_nums = {} /\ r_parent = None
         /\ r_res.kind # "commit") =>
        MasterTip \in Range(r_tried)

\* C26 (exhaustion diagnostics) as claimed: the error raised when every
\* candidate was tried carries the per-path errors of the last attempt.
C26_ExhaustionDiagnostics ==
    (r_pc = "done" /\ r_res.kind = "PatchFailedError") =>
        (r_res.paths = r_ex /\ r_res.paths # {})

\* What a mapping holding exactly the given entries is.
MapOf(entries) == {<<entries[i].diff, entries[i].node>> : i \in DOMAIN entries}

\* C27 (interrupted mapping write) as claimed: when the one interrupted
\* append is the last write to the file, loading succeeds and returns the
\* entries written completely before it, and nothing else.
C27_InterruptedWrite ==
    (f_pc = "loaded" /\ f_last_cut /\ f_cuts = 1) =>
        f_res = [kind |-> "ok", map |-> MapOf(f_done)]

\* The commit the i-th commit of a chain (the earliest first) was applied
\* onto: for the earliest its parent, for a later one its second parent if
\* it has two parents, else what the commit before it was applied onto.
RECURSIVE ExpectedOnto(_, _)
ExpectedOnto(chain, i) ==
    IF i = 1 THEN Parents(chain[1].commit)[1]
    ELSE IF Len(Parents(chain[i].commit)) > 1
         THEN Parents(chain[i].commit)[2]
         ELSE ExpectedOnto(chain, i - 1)

\* C28 (appliedOnto of a commit chain) as claimed: in a chain whose earliest
\* commit has one parent, every commit has the appliedOnto described above;
\* for commits that are each the only parent of the next, that is the parent
\* of the earliest for all.
C28_AppliedOnto ==
    (g_pc = "done" /\ g_res.kind = "ok") =>
        \A i \in DOMAIN g_res.chain :
            Len(Parents(g_res.chain[1].commit)) = 1 =>
                g_res.chain[i].appliedOnto = ExpectedOnto(g_res.chain, i)

\* ------------------------------------------------------------------------
\* Properties of the Patch Reconstructor
\* ------------------------------------------------------------------------

\* The lines of content of old: the elements of old.split('\n') without the
\* empty element a terminating newline leaves.
ContentLines(old) ==
    LET ls == OldLines(old)
    IN  IF ls # <<>> /\ Last(ls) = <<>> THEN SubSeq(ls, 1, Len(ls) - 1) ELSE ls

\* A Context or Removed line.
IsOldRef(line) == StartsWith(line, " ") \/ StartsWith(line, "-")

\* Number of Context and Removed lines among the first k lines of a corpus.
OldRefs(corpus, k) == Cardinality({j \in 1..k : IsOldRef(corpus[j])})

\* The 1-based old line that line k of a hunk is positioned at.
PositionOf(hunk, k) == hunk.oldOffset + OldRefs(hunk.corpus, k - 1)

\* The old lines the Context and Removed lines of a hunk are positioned at.
Consumed(hunk) ==
    {PositionOf(hunk, k) : k \in {j \in DOMAIN hunk.corpus :
                                      IsOldRef(hunk.corpus[j])}}

\* C6 (round trip) as claimed: for hunks derived from (old, new), with full
\* or with limited context, reconstruct(old, hunks) returns exactly new
\* (stated here for the new contents that are not empty).
C6_RoundTrip ==
    (p_pc = "done" /\ p_new # NoneBytes /\ p_new # <<>>) =>
        (p_res.ok /\ p_res.data = p_new)

\* C7 (unconsumed lines) as claimed: with a non-empty list of hunks that
\* each hold lines and that consume some line of old, reconstruct fails
\* whenever some other line of content of old is consumed by no hunk.
C7_UnconsumedLineFails ==
    (/\ p_pc = "done"
     /\ p_hunks # <<>>
     /\ \A h \in DOMAIN p_hunks : p_hunks[h].corpus # <<>>
     /\ p_old # NoneBytes
     /\ \E i \in 1..Len(ContentLines(p_old)) :
           \E h \in DOMAIN p_hunks : i \in Consumed(p_hunks[h])
     /\ \E i \in 1..Len(ContentLines(p_old)) :
           \A h \in DOMAIN p_hunks : i \notin Consumed(p_hunks[h]))
        => ~p_res.ok

\* C8 (past the end) as claimed: reconstruct fails whenever a Context or
\* Removed line is positioned after the last line of content of old, the
\* empty element after a terminating newline included.
C8_PastTheEndFails ==
    (/\ p_pc = "done"
     /\ p_old # NoneBytes
     /\ ContentLines(p_old) # <<>>
     /\ \E h \in DOMAIN p_hunks : \E k \in DOMAIN p_hunks[h].corpus :
           /\ IsOldRef(p_hunks[h].corpus[k])
           /\ PositionOf(p_hunks[h], k) > Len(ContentLines(p_old)))
        => ~p_res.ok

\* C9 (exactly once, left to right) as claimed: reconstruct fails when a
\* later hunk's old_offset lies before the cursor position the previous hunk
\* left, so that an old line is consumed twice.
C9_OverlapFails ==
    (/\ p_pc = "done"
     /\ p_old # NoneBytes
     /\ \E h \in 2..Len(p_hunks) :
           /\ p_hunks[h].oldOffset
                 < p_hunks[h - 1].oldOffset
                      + OldRefs(p_hunks[h - 1].corpus, Len(p_hunks[h - 1].corpus))
           /\ \E i \in 1..Len(ContentLines(p_old)) :
                 i \in Consumed(p_hunks[h]) \cap Consumed(p_hunks[h - 1]))
        => ~p_res.ok

\* All lines of the hunks, in the order they are walked: <<hunk, line>>.
Walked(hunks) ==
    LET RECURSIVE From(_)
        From(h) == IF h > Len(hunks) THEN <<>>
                   ELSE [k \in DOMAIN hunks[h].corpus |-> <<h, k>>]
                            \o From(h + 1)
    IN  From(1)

IsMarker(hunks, w) ==
    /\ w[2] = Len(hunks[w[1]].corpus)
    /\ hunks[w[1]].corpus[w[2]] = PHABRICATOR_NO_END_NEWLINE

\* Every line is an Added, Context or Removed line or a final no-newline
\* marker, and every Context and Removed line is positioned at a line of
\* content of old.
LinesAddressOld(old, hunks) ==
    /\ old # NoneBytes
    /\ \A i \in DOMAIN Walked(hunks) :
          LET w    == Walked(hunks)[i]
              line == hunks[w[1]].corpus[w[2]]
          IN  \/ IsMarker(hunks, w)
              \/ StartsWith(line, "+")
              \/ /\ IsOldRef(line)
                 /\ PositionOf(hunks[w[1]], w[2]) \in 1..Len(ContentLines(old))

\* A Context or Removed line whose text differs from the old line it is
\* positioned at.
Differs(old, hunks, w) ==
    LET line == hunks[w[1]].corpus[w[2]]
    IN  /\ ~IsMarker(hunks, w)
        /\ IsOldRef(line)
        /\ ContentLines(old)[PositionOf(hunks[w[1]], w[2])] # Tail(line)

\* The lines that reach the output when every Context and Removed line
\* matches: the texts of the Added and the Context lines, in order.
ExpectedOutput(hunks) ==
    LET ws   == Walked(hunks)
        outs == SelectSeq(ws, LAMBDA w :
                    /\ ~IsMarker(hunks, w)
                    /\ ~StartsWith(hunks[w[1]].corpus[w[2]], "-"))
    IN  [i \in DOMAIN outs |-> Tail(hunks[outs[i][1]].corpus[outs[i][2]])]

\* C10 (line matching): when the Context and Removed lines are positioned at
\* lines of old, the first one whose text differs from the old line at the
\* cursor makes reconstruct fail with the 1-based line number, the old line
\* as expected text and the hunk's text as found text, where the cursor is
\* the hunk's offset advanced by the Context and Removed lines before it and
\* by no Added line; when none differs, no mismatch is reported and a result
\* holds the Context and Added texts in order and no Removed text.
C10_LineMatching ==
    (p_pc = "done" /\ p_hunks # <<>> /\ LinesAddressOld(p_old, p_hunks)) =>
        LET ws  == Walked(p_hunks)
            bad == {i \in DOMAIN ws : Differs(p_old, p_hunks, ws[i])}
        IN  IF bad # {}
            THEN LET w    == ws[CHOOSE i \in bad : \A j \in bad : i <= j]
                     pos  == PositionOf(p_hunks[w[1]], w[2])
                 IN  /\ ~p_res.ok
                     /\ p_res.err =
                           PathPatchError("mismatch", pos, 0,
                                          ContentLines(p_old)[pos],
                                          Tail(p_hunks[w[1]].corpus[w[2]]))
            ELSE /\ p_res.err.kind # "mismatch"
                 /\ p_res.ok =>
                       \E nl \in {<<>>, <<NL>>} :
                           p_res.data = Join(ExpectedOutput(p_hunks)) \o nl

\* C10 witness: old "a\nb\n" and a hunk at offset 2 with the context line
\* "a": mismatch at line 2, expected "b", found "a".
C10_Witness ==
    /\ p_pc = "done"
    /\ p_old = <<"a", NL, "b", NL>>
    /\ p_hunks = <<[oldOffset |-> 2, corpus |-> <<<<" ", "a">>>>]>>
    /\ p_res.err = PathPatchError("mismatch", 2, 0, <<"b">>, <<"a">>)

\* The texts of the lines of all hunks, in order.
AllTexts(hunks) ==
    [i \in DOMAIN Walked(hunks) |->
        Tail(hunks[Walked(hunks)[i][1]].corpus[Walked(hunks)[i][2]])]

\* Every hunk is at offset 0 and holds Added lines only.
OnlyAddedAtZero(hunks) ==
    \A h \in DOMAIN hunks :
        /\ hunks[h].oldOffset = 0
        /\ hunks[h].corpus # <<>>
        /\ \A k \in DOMAIN hunks[h].corpus : StartsWith(hunks[h].corpus[k], "+")

\* C11 (offset 0) as claimed: with old absent or an existing empty file and
\* hunks at offset 0 that hold only Added lines, reconstruct succeeds and
\* returns the added lines; with a non-empty old, a hunk at offset 0 makes
\* reconstruct fail.
C11_OffsetZero ==
    (p_pc = "done" /\ p_hunks # <<>>) =>
        /\ ((p_old = NoneBytes \/ p_old = <<>>) /\ OnlyAddedAtZero(p_hunks)) =>
              /\ p_res.ok
              /\ p_res.data = Join(AllTexts(p_hunks)) \o <<NL>>
        /\ (p_old # NoneBytes /\ p_old # <<>>
              /\ \E h \in DOMAIN p_hunks : p_hunks[h].oldOffset = 0) =>
              ~p_res.ok

\* ------------------------------------------------------------------------
\* Properties of the Change Applier and the Commit Materializer
\* ------------------------------------------------------------------------

\* C12 (parent list) as claimed: the parents of a materialized commit are
\* [candidate] when the chain parent is absent or is the candidate itself,
\* and [candidate, chain parent] otherwise (stated for the diffs that hold
\* a change).
C12_ParentList ==
    (a_res.kind = "commit" /\ a_changes # <<>>) =>
        ParentList(a_res.parents) =
            IF a_prev = None \/ a_prev = a_node THEN <<a_node>>
            ELSE <<a_node, a_prev>>

\* The kinds of change _apply_diff_path handles.
Supported ==
    {TYPE_ADD, TYPE_CHANGE, TYPE_DELETE, TYPE_MOVE_AWAY, TYPE_COPY_AWAY,
     TYPE_MOVE_HERE, TYPE_COPY_HERE}

\* Change i of the diff fails against the candidate, whatever was handled
\* before it.
Fails(i) ==
    _apply_diff_path(a_tree, a_changes[i], [p \in Paths |-> NoEntry]).exc
        = "PathPatchError"

TargetInTheWay(c) ==
    /\ c.type \in {TYPE_ADD, TYPE_MOVE_HERE, TYPE_COPY_HERE}
    /\ a_tree[c.current_path] # NoneBytes

\* The target of change c must exist at the candidate, and it does not.
TargetMissing(c) ==
    /\ c.type \in {TYPE_CHANGE, TYPE_DELETE}
    /\ a_tree[c.current_path] = NoneBytes

\* C14 (existence preconditions): an Add, MoveHere or CopyHere whose target
\* exists at the candidate ends in the per-path failure "already exists", a
\* Modify or Delete whose target does not exist at the candidate ends in the
\* per-path failure "does not exist"; the attempt then creates no commit and
\* writes no mapping entry, and when all changes are of supported kinds it
\* ends in a BadPatchError that carries the path.
C14_ExistencePreconditions ==
    /\ \A i \in DOMAIN a_log :
          /\ TargetInTheWay(a_changes[i]) =>
                a_log[i] = [exc |-> "PathPatchError", msg |-> "already_exists"]
          /\ TargetMissing(a_changes[i]) =>
                a_log[i] = [exc |-> "PathPatchError", msg |-> "does_not_exist"]
    /\ a_pc = "done" =>
          \A i \in DOMAIN a_log :
              (TargetInTheWay(a_changes[i]) \/ TargetMissing(a_changes[i])) =>
                  /\ a_res.kind \in {"BadPatchError", "Exception"}
                  /\ ~a_res.saved
                  /\ (\A j \in DOMAIN a_changes :
                          a_changes[j].type \in Supported) =>
                        /\ a_res.kind = "BadPatchError"
                        /\ a_changes[i].current_path \in a_res.paths

\* C14 witness: an Add of a path the candidate has and a Modify of a path
\* the candidate does not have; the candidate is rejected for both paths.
C14_Witness ==
    /\ a_pc = "done"
    /\ Len(a_changes) = 2
    /\ a_changes[1].type = TYPE_ADD
    /\ TargetInTheWay(a_changes[1])
    /\ a_changes[2].type = TYPE_CHANGE
    /\ TargetMissing(a_changes[2])
    /\ a_res.kind = "BadPatchError"
    /\ a_res.paths = Paths

\* Changes i and j are the two halves of a rename or copy of S to T (away is
\* TYPE_MOVE_AWAY or TYPE_COPY_AWAY, here the matching TYPE_..._HERE), no
\* other change of the diff names S or T as its path, S exists at the
\* candidate, T does not, and the hunks apply to the blob of S.
IsPair(i, j, away, here) ==
    /\ a_changes[i].type = away
    /\ a_changes[j].type = here
    /\ a_changes[j].old_path = a_changes[i].current_path
    /\ \A k \in DOMAIN a_changes \ {i, j} :
          a_changes[k].current_path
              \notin {a_changes[i].current_path, a_changes[j].current_path}
    /\ a_tree[a_changes[j].old_path] # NoneBytes
    /\ a_tree[a_changes[j].current_path] = NoneBytes
    /\ _patch_data(a_tree[a_changes[j].old_path], a_changes[j].hunks).ok

\* C15 (rename and copy): for a rename of S to T the path map of the commit
\* has S absent and T = reconstruct(blob of S at the candidate, hunks) with
\* provenance S, in either order of the two changes; for a copy, T is the
\* same and S has no entry in the path map.
C15_RenameAndCopy ==
    a_pc = "done" =>
        \A i, j \in DOMAIN a_changes :
            LET S == a_changes[j].old_path
                T == a_changes[j].current_path
                r == _patch_data(a_tree[S], a_changes[j].hunks)
            IN  /\ IsPair(i, j, TYPE_MOVE_AWAY, TYPE_MOVE_HERE) =>
                      /\ a_res.kind = "commit"
                      /\ a_res.paths = {S, T}
                      /\ new_data[S] = Entry(NoneBytes, NoPath)
                      /\ new_data[T] = Entry(r.data, S)
                /\ IsPair(i, j, TYPE_COPY_AWAY, TYPE_COPY_HERE) =>
                      /\ a_res.kind = "commit"
                      /\ a_res.paths = {T}
                      /\ new_data[S] = NoEntry
                      /\ new_data[T] = Entry(r.data, S)

\* C15 witness: MoveAway of "s" handled before MoveHere "s" to "t" whose
\* hunk replaces line "a" by "b"; the commit has "s" absent and "t" = "b\n"
\* copied from "s".
C15_Witness ==
    /\ a_pc = "done"
    /\ Len(a_changes) = 2
    /\ IsPair(1, 2, TYPE_MOVE_AWAY, TYPE_MOVE_HERE)
    /\ a_changes[2].hunks # <<>>
    /\ a_tree["s"] = <<"a", NL>>
    /\ a_res.kind = "commit"
    /\ new_data["s"] = Entry(NoneBytes, NoPath)
    /\ new_data["t"] = Entry(<<"b", NL>>, "s")

\* C30 (targets of a successful attempt exist) as claimed: when _apply_diff
\* has committed, the path map holds content for the target of every Add,
\* MoveHere and CopyHere that no later change of the diff touches.
C30_TargetsExist ==
    a_res.kind = "commit" =>
        \A i \in DOMAIN a_changes :
            (/\ a_changes[i].type \in {TYPE_ADD, TYPE_MOVE_HERE, TYPE_COPY_HERE}
             /\ \A j \in DOMAIN a_changes :
                   j > i => a_changes[j].current_path
                               # a_changes[i].current_path) =>
                /\ new_data[a_changes[i].current_path].set
                /\ new_data[a_changes[i].current_path].data # NoneBytes

\* ------------------------------------------------------------------------
\* Properties of the merged ancestor walk
\* ------------------------------------------------------------------------

\* C19 (no duplicate candidates): the merged walk never yields the same
\* commit twice.
C19_NoDuplicateYield ==
    \A i, j \in DOMAIN w_out : i # j => w_out[i] # w_out[j]

\* C19 witness: the walk started from two heads, ended after yielding a
\* commit that changed both paths and that is the link revision of both
\* paths at both heads, and yielded other commits too.
C19_Witness ==
    /\ w_pc = "done"
    /\ Cardinality(commits_to_check) = 2
    /\ Len(w_out) >= 2
    /\ \E r \in Range(w_out) :
          \A c \in commits_to_check : \A p \in Paths :
              linkrev(w_parent, w_touched[p], c) = r

C21_WalkComplete ==
    w_pc = "done" =>
        \A it \in w_started :
            /\ it.rev \in Range(w_out)
            /\ \A i \in DOMAIN it.gen : it.gen[i] \in Range(w_out)

Init ==
    /\ ndiffs \in 0..MaxDiffs
    /\ base \in [1..ndiffs -> BaseCommits \cup {None}]
    /\ applies \in [1..ndiffs -> SUBSET BaseCommits]
    /\ unsupported \in 0..ndiffs
    \* _apply_diff raises for the unsupported change on any commit: where
    \* the other changes of that diff apply is never looked at
    /\ unsupported # 0 => applies[unsupported] = {}
    /\ diffs_as_list \in BOOLEAN
    \* with the list format no diff is ever looked at (RunFetchRaises): one
    \* repository stands for all of them
    /\ diffs_as_list =>
          /\ unsupported = 0
          /\ \A d \in 1..ndiffs : base[d] = None /\ applies[d] = {}
    /\ mapping = <<>>
    /\ created = <<>>
    /\ rev_results = [state |-> "absent", results |-> <<>>]
    /\ pc = "idle"
    /\ results = <<>>
    /\ to_apply = <<>>
    /\ orig_diffs = <<>>
    /\ start_results = <<>>
    /\ attempts = <<>>
    /\ ret = NoReturn
    /\ inner_ret = NoReturn
    /\ PatchIdle
    /\ ApplyIdle
    /\ WalkIdle
    /\ ResolveIdle
    /\ FileIdle
    /\ ChainIdle

Next ==
    \/ NewApplier
    \/ RunMemo
    \/ RunNested
    \/ RunFetchRaises
    \/ RunStart
    \/ RunApply
    \/ RunFinish

Spec == Init /\ [][Next]_vars

====
